---- MODULE Spec2Model ----
(***************************************************************************)
(* A model of the process-management core of MINIXCompat                   *)
(* (MINIXCompat_Processes.c): the per-process table that maps MINIX pids   *)
(* to host pids, fork / wait / kill / getpid over a tree of host           *)
(* processes, and the deferred signal delivery (trampoline and drain).     *)
(*                                                                         *)
(* Every emulated process is one host process, so the statics of the C     *)
(* file are modelled as functions from the host pid of the process that    *)
(* owns the copy to the value of the static in that process.               *)
(***************************************************************************)
EXTENDS Integers, Naturals, Sequences, FiniteSets, TLC

\* ------------------------------------------------------------------------
\* Bounds of the model.

\* Host pids are 1..MaxHostPid; the host hands a free one to each new child.
MaxHostPid == 4

\* The host forks succeed at most MaxForks times over the whole process tree.
MaxForks == 3

\* The signal frames that may be on the emulated stack at one time.
MaxFrames == 2

\* The most consecutive times one wait call is interrupted.
MaxEINTR == 2

\* The opens of one MINIXCompat_Log_New call that are counted.
MaxOpens == 3

\* The number of entries reserved and filled in one process table where
\* only the table is followed.
MaxTableFills == 48

\* The number of entries removed from that table.
MaxTableReaps == 1

\* ------------------------------------------------------------------------
\* Program constants.

\* MINIXCompat_ProcessTable_Size = 32;
InitialTableSize == 32

\* const minix_pid_t pseudoparent = 6;
pseudoparent == 6

\* const minix_pid_t ourselves = 7;
ourselves == 7

\* minix_next_pid = 8;
InitialNextPid == 8

\* MINIX 1.5 errno values used directly by the source (MINIXCompat_Errors.h).
minix_ESRCH == 3

minix_EINVAL == 22

\* MINIX 1.5 signal numbers (MINIXCompat_Types.h), in the order of the switch
\* statements of the signal map.
minix_SIGHUP == 1

minix_SIGINT == 2

minix_SIGQUIT == 3

minix_SIGILL == 4

minix_SIGTRAP == 5

minix_SIGABRT == 6

minix_SIGUNUSED == 7

minix_SIGFPE == 8

minix_SIGKILL == 9

minix_SIGUSR1 == 10

minix_SIGSEGV == 11

minix_SIGUSR2 == 12

minix_SIGPIPE == 13

minix_SIGALRM == 14

minix_SIGTERM == 15

minix_SIGSTKFLT == 16

MinixSignals == minix_SIGHUP..minix_SIGSTKFLT

\* ------------------------------------------------------------------------
\* Integer widths.

\* minix_pid_t and the int16_t results: a value stored in 16 signed bits.
Int16(x) == ((x + 32768) % 65536) - 32768

\* uint8_t: the two bytes of a MINIX wait status.
UInt8(x) == x % 256

\* ------------------------------------------------------------------------
\* The host, as far as the program sees it.

HostPids == 1..MaxHostPid

\* Error numbers are named, since their host values differ between hosts.
\* MINIXCompat_Errors_MINIXErrorForHostError is a collaborator; it yields the
\* MINIX 1.5 number of the same error.
MINIXCompat_Errors_MINIXErrorForHostError(host_errno) ==
    CASE host_errno = "EPERM"  -> 1
      [] host_errno = "ENOENT" -> 2
      [] host_errno = "ESRCH"  -> 3
      [] host_errno = "EINTR"  -> 4
      [] host_errno = "EIO"    -> 5
      [] host_errno = "ECHILD" -> 10
      [] host_errno = "EAGAIN" -> 11
      [] host_errno = "ENOMEM" -> 12
      [] host_errno = "EINVAL" -> 22

\* What fork(2), wait(2) and kill(2) can fail with.
ForkErrnos == {"EAGAIN", "ENOMEM"}

KillErrnos == {"EPERM"}

\* A host wait status, as the W* macros of <sys/wait.h> read it.
HostExited(code) == [kind |-> "exited", val |-> code]

HostSignaled(sig) == [kind |-> "signaled", val |-> sig]

HostStopped(sig) == [kind |-> "stopped", val |-> sig]

\* The statuses a child of the model ends with or is reported stopped with.
ExitStats == {HostExited(42), HostSignaled(9)}

StopStats == {HostStopped(5)}

NoStat == [kind |-> "none", val |-> 0]

\* ------------------------------------------------------------------------
\* The process table (one copy per process).

\* minix_process_mapping_t
Entry(host_pid, minix_pid) == [host_pid |-> host_pid, minix_pid |-> minix_pid]

\* A calloc'ed entry: both fields zero; an entry is free iff host_pid = 0.
FreeEntry == Entry(0, 0)

\* The least element of a non-empty set of indexes: a loop from low to high
\* returns at its first hit.
First(S) == CHOOSE i \in S : \A j \in S : i <= j

\* MINIXCompat_Processes_Initialize: the table, its size and the next pid.
MINIXCompat_Processes_Initialize(host_self_pid, host_self_ppid) ==
    [ table |-> [i \in 0..(InitialTableSize - 1) |->
                    IF i = 0 THEN Entry(host_self_pid, ourselves)
                    ELSE IF i = 1 THEN Entry(host_self_ppid, pseudoparent)
                    ELSE FreeEntry],
      size  |-> InitialTableSize,
      next  |-> InitialNextPid ]

\* Linear scan over the whole table for host_pid; -1 on a miss.
MINIXCompat_Processes_MINIXProcessForHostProcess(table, size, host_pid) ==
    LET hits == {i \in 0..(size - 1) : table[i].host_pid = host_pid}
    IN  IF hits # {} THEN table[First(hits)].minix_pid ELSE -1

\* A faulty variant: the scan starts at the first child entry, index 2.
HostProcessForMINIXProcess_FromChildren(table, size, minix_pid) ==
    LET hits == {i \in 2..(size - 1) : table[i].minix_pid = minix_pid}
    IN  IF hits # {} THEN table[First(hits)].host_pid ELSE -1

\* Linear scan over the whole table for minix_pid; -1 on a miss.
MINIXCompat_Processes_HostProcessForMINIXProcess(table, size, minix_pid) ==
    LET hits == {i \in 0..(size - 1) : table[i].minix_pid = minix_pid}
    IN  IF hits # {} THEN table[First(hits)].host_pid ELSE -1

\* A faulty variant: the table is reallocated to twice its size.
NextFreeTableEntry_Doubles(table, size) ==
    LET free == {i \in 2..(size - 1) : table[i].host_pid = 0}
        new_table_size == size + size
    IN  IF free # {}
        THEN [entry |-> First(free), table |-> table, size |-> size]
        ELSE [entry |-> size,
              table |-> [i \in 0..(new_table_size - 1) |->
                            IF i < size THEN table[i] ELSE FreeEntry],
              size  |-> new_table_size]

\* The first free entry from index 2 on; with none, the table is reallocated
\* to size + size/2 zeroed entries, the old entries copied, and the first new
\* index (the old size) returned.
MINIXCompat_Processes_NextFreeTableEntry(table, size) ==
    LET free == {i \in 2..(size - 1) : table[i].host_pid = 0}
        new_table_size == size + (size \div 2)
    IN  IF free # {}
        THEN [entry |-> First(free), table |-> table, size |-> size]
        ELSE [entry |-> size,
              table |-> [i \in 0..(new_table_size - 1) |->
                            IF i < size THEN table[i] ELSE FreeEntry],
              size  |-> new_table_size]

\* The first entry whose minix_pid matches is zeroed.  The caller's
\* assert(minix_pid > 0) is modelled where the function is called.
MINIXCompat_Processes_RemoveMINIXProcess(table, size, minix_pid) ==
    LET hits == {i \in 0..(size - 1) : table[i].minix_pid = minix_pid}
    IN  IF hits # {} THEN [table EXCEPT ![First(hits)] = FreeEntry] ELSE table

\* fork, parent side: the reserved entry gets the child's two pids.
ForkParentTable(table, new_process_entry, new_host_process, new_minix_process) ==
    [table EXCEPT ![new_process_entry] = Entry(new_host_process, new_minix_process)]

\* A faulty variant: entry 0 is overwritten before it is copied to entry 1.
ForkChildTable_SelfFirst(table, new_process_entry, child_host_pid, new_minix_process) ==
    LET t1 == [table EXCEPT ![new_process_entry] = table[1]]
        t2 == [t1 EXCEPT ![0] = Entry(child_host_pid, new_minix_process)]
    IN  [t2 EXCEPT ![1] = t2[0]]

\* fork, child side (getpid() = child_host_pid), in the order of the source:
\* the old parent entry goes to the reserved entry, the old self entry to
\* entry 1, and entry 0 becomes the child itself.
ForkChildTable(table, new_process_entry, child_host_pid, new_minix_process) ==
    LET t1 == [table EXCEPT ![new_process_entry] = table[1]]
        t2 == [t1 EXCEPT ![1] = t1[0]]
    IN  [t2 EXCEPT ![0] = Entry(child_host_pid, new_minix_process)]

\* A faulty variant: the error result -1 is taken for a child's host pid and the
\* parent's path fills the reserved entry.
ForkFailedTable_Filled(table, new_process_entry, new_host_process, new_minix_process) ==
    [table EXCEPT ![new_process_entry] = Entry(new_host_process, new_minix_process)]

\* fork, error path: the reserved entry is not written.
ForkFailedTable(table, new_process_entry, new_host_process, new_minix_process) ==
    table

\* new_minix_process = minix_next_pid++ leaves this in minix_next_pid.
ForkBumpedNextPid(next_pid) == Int16(next_pid + 1)

\* A faulty variant: the error path does not reset minix_next_pid.
ForkFailedNextPid_NoReset(next_pid) == ForkBumpedNextPid(next_pid)

\* fork, error path: minix_next_pid -= 1 after the bump.
ForkFailedNextPid(next_pid) == Int16(ForkBumpedNextPid(next_pid) - 1)

\* ------------------------------------------------------------------------
\* The wait status codec.

\* minix_wait_stat_t: cooked.exitstat is the first byte, cooked.sigstat the
\* second.
WaitStat(exitstat, sigstat) == [exitstat |-> exitstat, sigstat |-> sigstat]

\* minix_wait_stat_t.raw, the int16_t over the two bytes (little-endian host).
WaitStatRaw(ws) == Int16(ws.exitstat + 256 * ws.sigstat)

MINIXCompat_WIFEXITED(ws) == ws.sigstat = 0

MINIXCompat_WIFSIGNALED(ws) == ws.exitstat = 0

\* A faulty variant: the stopped case is missing.
MINIXStatForHostStat_StoppedAsExit(host_stat) ==
    IF host_stat.kind = "exited" THEN WaitStat(UInt8(host_stat.val), 0)
    ELSE IF host_stat.kind = "signaled" THEN WaitStat(UInt8(host_stat.val), 0)
    ELSE WaitStat(UInt8(host_stat.val), 0)

MINIXCompat_Processes_MINIXStatForHostStat(host_stat) ==
    IF host_stat.kind = "exited" THEN WaitStat(UInt8(host_stat.val), 0)
    ELSE IF host_stat.kind = "stopped" THEN WaitStat(UInt8(host_stat.val), 127)
    ELSE IF host_stat.kind = "signaled" THEN WaitStat(UInt8(host_stat.val), 0)
    ELSE WaitStat(UInt8(minix_SIGKILL), 0)

\* ------------------------------------------------------------------------
\* The signal map.  Host signals are named: their numbers differ by host.

MINIXCompat_Processes_HostSignalForMINIXSignal(minix_signal) ==
    CASE minix_signal = minix_SIGHUP    -> "SIGHUP"
      [] minix_signal = minix_SIGINT    -> "SIGINT"
      [] minix_signal = minix_SIGQUIT   -> "SIGQUIT"
      [] minix_signal = minix_SIGILL    -> "SIGILL"
      [] minix_signal = minix_SIGTRAP   -> "SIGTRAP"
      [] minix_signal = minix_SIGABRT   -> "SIGABRT"
      [] minix_signal = minix_SIGUNUSED -> "SIGXFSZ"
      [] minix_signal = minix_SIGFPE    -> "SIGFPE"
      [] minix_signal = minix_SIGKILL   -> "SIGKILL"
      [] minix_signal = minix_SIGUSR1   -> "SIGUSR1"
      [] minix_signal = minix_SIGSEGV   -> "SIGSEGV"
      [] minix_signal = minix_SIGUSR2   -> "SIGUSR2"
      [] minix_signal = minix_SIGPIPE   -> "SIGPIPE"
      [] minix_signal = minix_SIGALRM   -> "SIGALRM"
      [] minix_signal = minix_SIGTERM   -> "SIGTERM"
      [] minix_signal = minix_SIGSTKFLT -> "SIGXCPU"

\* A faulty variant: SIGXFSZ and SIGXCPU are taken for each other.
MINIXSignalForHostSignal_Crossed(host_signal) ==
    CASE host_signal = "SIGHUP"  -> minix_SIGHUP
      [] host_signal = "SIGINT"  -> minix_SIGINT
      [] host_signal = "SIGQUIT" -> minix_SIGQUIT
      [] host_signal = "SIGILL"  -> minix_SIGILL
      [] host_signal = "SIGTRAP" -> minix_SIGTRAP
      [] host_signal = "SIGABRT" -> minix_SIGABRT
      [] host_signal = "SIGXCPU" -> minix_SIGUNUSED
      [] host_signal = "SIGFPE"  -> minix_SIGFPE
      [] host_signal = "SIGKILL" -> minix_SIGKILL
      [] host_signal = "SIGUSR1" -> minix_SIGUSR1
      [] host_signal = "SIGSEGV" -> minix_SIGSEGV
      [] host_signal = "SIGUSR2" -> minix_SIGUSR2
      [] host_signal = "SIGPIPE" -> minix_SIGPIPE
      [] host_signal = "SIGALRM" -> minix_SIGALRM
      [] host_signal = "SIGTERM" -> minix_SIGTERM
      [] host_signal = "SIGXFSZ" -> minix_SIGSTKFLT
      [] OTHER -> 0

\* 0 when MINIX has no such signal.
MINIXCompat_Processes_MINIXSignalForHostSignal(host_signal) ==
    CASE host_signal = "SIGHUP"  -> minix_SIGHUP
      [] host_signal = "SIGINT"  -> minix_SIGINT
      [] host_signal = "SIGQUIT" -> minix_SIGQUIT
      [] host_signal = "SIGILL"  -> minix_SIGILL
      [] host_signal = "SIGTRAP" -> minix_SIGTRAP
      [] host_signal = "SIGABRT" -> minix_SIGABRT
      [] host_signal = "SIGXFSZ" -> minix_SIGUNUSED
      [] host_signal = "SIGFPE"  -> minix_SIGFPE
      [] host_signal = "SIGKILL" -> minix_SIGKILL
      [] host_signal = "SIGUSR1" -> minix_SIGUSR1
      [] host_signal = "SIGSEGV" -> minix_SIGSEGV
      [] host_signal = "SIGUSR2" -> minix_SIGUSR2
      [] host_signal = "SIGPIPE" -> minix_SIGPIPE
      [] host_signal = "SIGALRM" -> minix_SIGALRM
      [] host_signal = "SIGTERM" -> minix_SIGTERM
      [] host_signal = "SIGXCPU" -> minix_SIGSTKFLT
      [] OTHER -> 0

\* ------------------------------------------------------------------------
\* State.

VARIABLES
    \* The host: what each host pid is ("free", "host" for the process that
    \* started the emulator, "run" for a running emulated process, "zombie"
    \* for a terminated one not yet reaped), its parent (0: reparented to the
    \* host's init) and, for a zombie, its wait status.
    hostState,
    hostParent,
    hostStat,
    \* The host pids that have ever been given to a process.
    host_used,
    \* The statics of MINIXCompat_Processes.c, per process.
    MINIXCompat_ProcessTable,
    MINIXCompat_ProcessTable_Size,
    minix_self_pid,
    minix_self_ppid,
    minix_next_pid,
    \* History: the successful forks of each running process, the children it
    \* has reaped by wait, and the last call made with what it saw and returned.
    forks_ok,
    waits_ok,
    total_forks,
    \* History: for each child, the MINIX pid the fork that created it
    \* returned to its parent.
    born_as,
    last,
    \* Per process: how many times the host wait of the call in progress has
    \* failed with EINTR (0 when the process is not inside a wait).
    wait_eintr

VARIABLES
    \* The signal statics of one process.
    minix_signal_handlers,
    MINIXCompat_Processes_HasPendingSignal,
    MINIXCompat_Processes_PendingSignals,
    \* The host's disposition of each mapped host signal.
    host_handlers,
    \* The emulated CPU: pc, sr and what has been pushed on its stack.
    cpu,
    \* Where MINIXCompat_Processes_HandlePendingSignals is (pos: the signal
    \* of the next loop iteration, 0 outside a call; clear_due: the flag
    \* MINIXCompat_Processes_HasPendingSignal was tested and its store of
    \* false is still to be made), and history: the CPU and the flags at
    \* the entry of the call in progress and the signals it has consumed,
    \* each with the handler it found.
    drain,
    siglast,
    \* History: per MINIX signal, the handler passed by the most recent
    \* signal() call (NoHandler before the first), whether SIG_ERR was ever
    \* passed for it, the host dispositions at start, and the handler the
    \* table held when the flag of the signal, now set, was set.
    sighist

procVars ==
    <<hostState, hostParent, hostStat, host_used, MINIXCompat_ProcessTable,
      MINIXCompat_ProcessTable_Size, minix_self_pid, minix_self_ppid,
      minix_next_pid, forks_ok, waits_ok, total_forks, born_as,
      last, wait_eintr>>

sigVars ==
    <<minix_signal_handlers, MINIXCompat_Processes_HasPendingSignal,
      MINIXCompat_Processes_PendingSignals, host_handlers, cpu, drain, siglast,
      sighist>>

VARIABLES
    \* The break: the static of MINIXCompat_Processes_brk and the initial
    \* break of the loaded executable.
    minix_current_break,
    executable_initial_break,
    \* History: the last brk call with what it saw and returned.
    brklast

brkVars == <<minix_current_break, executable_initial_break, brklast>>

VARIABLES
    \* Emulated RAM, the execution state of the emulator, and history: the
    \* last exec call with its inputs, its result and the collaborator calls
    \* it made.
    ram,
    execution_state,
    execlast

execVars == <<ram, execution_state, execlast>>

VARIABLES
    \* History: the last application of a translation function (signal
    \* numbers, wait statuses) with its argument and its result.
    pure

VARIABLES
    \* Logging (MINIXCompat_Logging.c, DEBUG builds) in one process: the
    \* descriptor, where the process is in MINIXCompat_Log_New, the errno
    \* the last failed open left, and the opens made by the call so far.
    MINIXCompat_Log_File,
    log_pc,
    log_errno,
    log_opens,
    \* The host: what is at the path of this process's log file.
    log_path

logVars == <<MINIXCompat_Log_File, log_pc, log_errno, log_opens, log_path>>

auxVars == <<pure, logVars>>

restVars == <<brkVars, execVars, auxVars>>

vars == <<procVars, sigVars, restVars>>

\* ------------------------------------------------------------------------
\* Processes: initial state.

Running(p) == hostState[p] = "run"

\* The process the host started: its parent is not an emulated process.
IsInitial(p) ==
    /\ Running(p)
    /\ hostParent[p] \in HostPids
    /\ hostState[hostParent[p]] = "host"

\* The children of p that p can still wait for ("plain": a running host
\* process that is not an emulator).
HostChildren(p) ==
    {c \in HostPids :
        hostParent[c] = p /\ hostState[c] \in {"run", "plain", "zombie"}}

\* The host pids the host may give to a new child: any pid that is free
\* again after its process was reaped, or a pid never used before.  Pids
\* never used before are interchangeable, so the lowest stands for them all.
HostMayAssign(c) ==
    /\ hostState[c] = "free"
    /\ \/ c \in host_used
       \/ (HostPids \ host_used) # {} /\ c = First(HostPids \ host_used)

\* The state after MINIXCompat_Processes_Initialize in the process the host
\* started: getpid() is 2 and getppid() is 1, the process that started it.
\* The host pids in inherited are children the process had before it
\* became the emulator (started by a shell that then did exec): the table
\* knows nothing of them.
ProcStart(inherited) ==
    LET host_self_pid == 2
        host_self_ppid == 1
        init == MINIXCompat_Processes_Initialize(host_self_pid, host_self_ppid)
        mine(h, x, none) == IF h = host_self_pid THEN x ELSE none
    IN  /\ hostState = [h \in HostPids |->
                          IF h = host_self_ppid THEN "host"
                          ELSE IF h = host_self_pid THEN "run"
                          ELSE IF h \in inherited THEN "plain" ELSE "free"]
        /\ hostParent = [h \in HostPids |->
                             IF h \in inherited THEN host_self_pid
                             ELSE mine(h, host_self_ppid, 0)]
        /\ hostStat = [h \in HostPids |-> NoStat]
        /\ host_used = {host_self_pid, host_self_ppid} \cup inherited
        /\ MINIXCompat_ProcessTable = [h \in HostPids |-> mine(h, init.table, <<>>)]
        /\ MINIXCompat_ProcessTable_Size = [h \in HostPids |-> mine(h, init.size, 0)]
        /\ minix_self_pid = [h \in HostPids |-> 0]
        /\ minix_self_ppid = [h \in HostPids |-> 0]
        /\ minix_next_pid = [h \in HostPids |-> mine(h, init.next, 0)]
        /\ forks_ok = [h \in HostPids |-> 0]
        /\ waits_ok = [h \in HostPids |-> 0]
        /\ total_forks = 0
        /\ born_as = [h \in HostPids |-> 0]
        /\ last = [op |-> "init", proc |-> host_self_pid]
        /\ wait_eintr = [h \in HostPids |-> 0]

ProcInit == ProcStart({})

\* ------------------------------------------------------------------------
\* Processes: the calls.

\* MINIXCompat_Processes_GetProcessIDs in process p.
GetProcessIDs(p) ==
    /\ UNCHANGED <<sigVars, restVars>>
    /\ Running(p)
    /\ wait_eintr[p] = 0
    /\ UNCHANGED wait_eintr
    /\ LET lazy == (minix_self_pid[p] = 0) /\ (minix_self_ppid[p] = 0)
           pid  == IF lazy THEN MINIXCompat_ProcessTable[p][0].minix_pid
                   ELSE minix_self_pid[p]
           ppid == IF lazy THEN MINIXCompat_ProcessTable[p][1].minix_pid
                   ELSE minix_self_ppid[p]
       IN  /\ minix_self_pid' = [minix_self_pid EXCEPT ![p] = pid]
           /\ minix_self_ppid' = [minix_self_ppid EXCEPT ![p] = ppid]
           /\ last' = [op |-> "getpids", proc |-> p, pid |-> pid, ppid |-> ppid]
    /\ UNCHANGED <<hostState, hostParent, hostStat, host_used, MINIXCompat_ProcessTable,
                   MINIXCompat_ProcessTable_Size, minix_next_pid, forks_ok,
                   waits_ok, total_forks, born_as>>

\* MINIXCompat_Processes_fork in process p when the host fork fails with
\* host_errno: minix_next_pid is bumped and then reset.
ForkFailed(p, host_errno) ==
    /\ UNCHANGED <<sigVars, restVars>>
    /\ Running(p)
    /\ wait_eintr[p] = 0
    /\ UNCHANGED wait_eintr
    /\ LET r == MINIXCompat_Processes_NextFreeTableEntry(
                    MINIXCompat_ProcessTable[p], MINIXCompat_ProcessTable_Size[p])
           new_minix_process == minix_next_pid[p]
           new_host_process == -1
           result == Int16(-MINIXCompat_Errors_MINIXErrorForHostError(host_errno))
       IN  /\ MINIXCompat_ProcessTable' =
                  [MINIXCompat_ProcessTable EXCEPT
                      ![p] = ForkFailedTable(r.table, r.entry, new_host_process,
                                             new_minix_process)]
           /\ MINIXCompat_ProcessTable_Size' =
                  [MINIXCompat_ProcessTable_Size EXCEPT ![p] = r.size]
           /\ minix_next_pid' =
                  [minix_next_pid EXCEPT ![p] = ForkFailedNextPid(new_minix_process)]
           /\ last' = [op |-> "fork_failed", proc |-> p, ret |-> result,
                       host_errno |-> host_errno,
                       k |-> r.entry, m |-> new_minix_process,
                       pre_procs |-> {h \in HostPids : hostState[h] # "free"},
                       pre |-> MINIXCompat_ProcessTable[p],
                       pre_size |-> MINIXCompat_ProcessTable_Size[p],
                       pre_next |-> minix_next_pid[p]]
    /\ UNCHANGED <<hostState, hostParent, hostStat, host_used, minix_self_pid,
                   minix_self_ppid, forks_ok, waits_ok, total_forks, born_as>>

\* MINIXCompat_Processes_fork in process p when the host fork succeeds and
\* the host gives the child the free host pid c: the parent's side and the
\* child's side, each on its own copy of the statics as they were at the
\* host fork.
ForkOk(p, c) ==
    /\ UNCHANGED <<sigVars, restVars>>
    /\ Running(p)
    /\ wait_eintr[p] = 0
    /\ UNCHANGED wait_eintr
    /\ total_forks < MaxForks
    /\ HostMayAssign(c)
    /\ total_forks' = total_forks + 1
    /\ born_as' = [born_as EXCEPT ![c] = minix_next_pid[p]]
    /\ host_used' = host_used \cup {c}
    /\ LET r == MINIXCompat_Processes_NextFreeTableEntry(
                    MINIXCompat_ProcessTable[p], MINIXCompat_ProcessTable_Size[p])
           new_process_entry == r.entry
           new_minix_process == minix_next_pid[p]
           bumped == ForkBumpedNextPid(new_minix_process)
       IN  /\ hostState' = [hostState EXCEPT ![c] = "run"]
           /\ hostParent' = [hostParent EXCEPT ![c] = p]
           /\ MINIXCompat_ProcessTable' =
                  [MINIXCompat_ProcessTable EXCEPT
                      ![p] = ForkParentTable(r.table, new_process_entry, c,
                                             new_minix_process),
                      ![c] = ForkChildTable(r.table, new_process_entry, c,
                                            new_minix_process)]
           /\ MINIXCompat_ProcessTable_Size' =
                  [MINIXCompat_ProcessTable_Size EXCEPT ![p] = r.size, ![c] = r.size]
           /\ minix_next_pid' = [minix_next_pid EXCEPT ![p] = bumped, ![c] = bumped]
           /\ minix_self_ppid' = [minix_self_ppid EXCEPT ![c] = minix_self_pid[p]]
           /\ minix_self_pid' = [minix_self_pid EXCEPT ![c] = new_minix_process]
           /\ forks_ok' = [forks_ok EXCEPT ![p] = @ + 1, ![c] = 0]
           /\ waits_ok' = [waits_ok EXCEPT ![c] = 0]
           /\ last' = [op |-> "fork", proc |-> p, ret |-> new_minix_process,
                       child |-> c, child_ret |-> 0,
                       k |-> new_process_entry, m |-> new_minix_process,
                       T |-> r.table, T_size |-> r.size, T_next |-> bumped,
                       pre |-> MINIXCompat_ProcessTable[p],
                       pre_next |-> minix_next_pid[p]]
    /\ UNCHANGED hostStat

\* What MINIXCompat_Processes_wait does with a successful host wait that
\* gave (host_pid, host_stat): the value returned, the status written and
\* the table afterwards.  RemoveMINIXProcess asserts minix_pid > 0.
WaitResult(table, size, host_pid, host_stat) ==
    LET minix_pid  == MINIXCompat_Processes_MINIXProcessForHostProcess(
                          table, size, host_pid)
        minix_stat == MINIXCompat_Processes_MINIXStatForHostStat(host_stat)
        removes    == MINIXCompat_WIFEXITED(minix_stat)
                          \/ MINIXCompat_WIFSIGNALED(minix_stat)
    IN  [ ret      |-> minix_pid,
          stat_loc |-> WaitStatRaw(minix_stat),
          stat     |-> minix_stat,
          removes  |-> removes,
          asserted |-> removes /\ ~(minix_pid > 0),
          table    |-> IF removes /\ minix_pid > 0
                       THEN MINIXCompat_Processes_RemoveMINIXProcess(
                                table, size, minix_pid)
                       ELSE table ]

\* MINIXCompat_Processes_wait in process p, the host reaping the terminated
\* child c.  (Host waits that fail with EINTR are retried inside the call.)
WaitReaped(p, c) ==
    /\ UNCHANGED <<sigVars, restVars>>
    /\ Running(p)
    /\ wait_eintr' = [wait_eintr EXCEPT ![p] = 0]
    /\ c \in HostChildren(p)
    /\ hostState[c] = "zombie"
    /\ LET w == WaitResult(MINIXCompat_ProcessTable[p],
                           MINIXCompat_ProcessTable_Size[p], c, hostStat[c])
       IN  /\ MINIXCompat_ProcessTable' = [MINIXCompat_ProcessTable EXCEPT ![p] = w.table]
           /\ last' = [op |-> "wait", proc |-> p, eintr |-> wait_eintr[p], ret |-> w.ret,
                       host_pid |-> c, host_stat |-> hostStat[c],
                       child_minix |-> born_as[c],
                       stat_loc |-> w.stat_loc, stat |-> w.stat,
                       pre |-> MINIXCompat_ProcessTable[p],
                       pre_size |-> MINIXCompat_ProcessTable_Size[p]]
    /\ hostState' = [hostState EXCEPT ![c] = "free"]
    /\ hostParent' = [hostParent EXCEPT ![c] = 0]
    /\ hostStat' = [hostStat EXCEPT ![c] = NoStat]
    /\ waits_ok' = [waits_ok EXCEPT ![p] = @ + 1]
    /\ born_as' = [born_as EXCEPT ![c] = 0]
    /\ UNCHANGED <<host_used, MINIXCompat_ProcessTable_Size, minix_self_pid,
                   minix_self_ppid, minix_next_pid, forks_ok, total_forks>>

\* MINIXCompat_Processes_wait in process p, the host reporting the running
\* (traced) child c as stopped; the child stays.
WaitStopped(p, c, host_stat) ==
    /\ UNCHANGED <<sigVars, restVars>>
    /\ Running(p)
    /\ wait_eintr' = [wait_eintr EXCEPT ![p] = 0]
    /\ c \in HostChildren(p)
    /\ hostState[c] \in {"run", "plain"}
    /\ LET w == WaitResult(MINIXCompat_ProcessTable[p],
                           MINIXCompat_ProcessTable_Size[p], c, host_stat)
       IN  /\ MINIXCompat_ProcessTable' = [MINIXCompat_ProcessTable EXCEPT ![p] = w.table]
           /\ last' = [op |-> "wait", proc |-> p, eintr |-> wait_eintr[p], ret |-> w.ret,
                       host_pid |-> c, host_stat |-> host_stat,
                       child_minix |-> born_as[c],
                       stat_loc |-> w.stat_loc, stat |-> w.stat,
                       pre |-> MINIXCompat_ProcessTable[p],
                       pre_size |-> MINIXCompat_ProcessTable_Size[p]]
    /\ UNCHANGED <<hostState, hostParent, hostStat, host_used,
                   MINIXCompat_ProcessTable_Size, minix_self_pid,
                   minix_self_ppid, minix_next_pid, forks_ok, waits_ok,
                   total_forks, born_as>>

\* MINIXCompat_Processes_wait in process p with no child to wait for: the
\* host wait fails with ECHILD.
WaitFailed(p) ==
    /\ UNCHANGED <<sigVars, restVars>>
    /\ Running(p)
    /\ wait_eintr' = [wait_eintr EXCEPT ![p] = 0]
    /\ HostChildren(p) = {}
    /\ last' = [op |-> "wait_failed", proc |-> p, eintr |-> wait_eintr[p],
                ret |-> Int16(-MINIXCompat_Errors_MINIXErrorForHostError("ECHILD")),
                pre |-> MINIXCompat_ProcessTable[p]]
    /\ UNCHANGED <<hostState, hostParent, hostStat, host_used, MINIXCompat_ProcessTable,
                   MINIXCompat_ProcessTable_Size, minix_self_pid,
                   minix_self_ppid, minix_next_pid, forks_ok, waits_ok,
                   total_forks, born_as>>

\* The MINIX pids and signals the model passes to kill.
KillPids == pseudoparent..(InitialNextPid + MaxForks - 1)

KillSignals == {minix_SIGKILL, minix_SIGSTKFLT}

MappedHostSignals ==
    {MINIXCompat_Processes_HostSignalForMINIXSignal(s) : s \in MinixSignals}

\* What MINIXCompat_Processes_kill returns and the host kills it issues,
\* host_errno being what the host kill fails with ("none": it succeeds).
KillResult(table, size, minix_pid, minix_signal, host_errno) ==
    LET host_signal == MINIXCompat_Processes_HostSignalForMINIXSignal(minix_signal)
        host_pid == IF minix_pid > 0
                    THEN MINIXCompat_Processes_HostProcessForMINIXProcess(
                             table, size, minix_pid)
                    ELSE minix_pid
    IN  IF host_signal \notin MappedHostSignals
        THEN [ret |-> Int16(-minix_EINVAL), host_kills |-> <<>>]
        ELSE IF host_pid <= 0
        THEN [ret |-> Int16(-minix_ESRCH), host_kills |-> <<>>]
        ELSE [ret |-> IF host_errno = "none" THEN 0
                      ELSE Int16(-MINIXCompat_Errors_MINIXErrorForHostError(host_errno)),
              host_kills |-> << <<host_pid, host_signal>> >>]

\* MINIXCompat_Processes_kill in process p.
Kill(p, minix_pid, minix_signal, host_errno) ==
    /\ UNCHANGED <<sigVars, restVars>>
    /\ Running(p)
    /\ wait_eintr[p] = 0
    /\ UNCHANGED wait_eintr
    /\ LET r == KillResult(MINIXCompat_ProcessTable[p],
                           MINIXCompat_ProcessTable_Size[p],
                           minix_pid, minix_signal, host_errno)
       IN  \* host_errno is an outcome of the host kill: none without one.
           /\ (r.host_kills = <<>>) => (host_errno = "none")
           /\ last' = [op |-> "kill", proc |-> p, pid |-> minix_pid,
                    sig |-> minix_signal, host_errno |-> host_errno,
                    ret |-> r.ret, host_kills |-> r.host_kills,
                    pre |-> MINIXCompat_ProcessTable[p]]
    /\ UNCHANGED <<hostState, hostParent, hostStat, host_used, MINIXCompat_ProcessTable,
                   MINIXCompat_ProcessTable_Size, minix_self_pid,
                   minix_self_ppid, minix_next_pid, forks_ok, waits_ok,
                   total_forks, born_as>>

\* The emulated process p ends with host status host_stat (it exits or a
\* signal kills it): its memory is gone, its children go to the host's init.
Terminate(p, host_stat) ==
    /\ UNCHANGED <<sigVars, restVars>>
    /\ Running(p)
    /\ wait_eintr' = [wait_eintr EXCEPT ![p] = 0]
    /\ hostState' = [hostState EXCEPT ![p] = "zombie"]
    /\ hostStat' = [hostStat EXCEPT ![p] = host_stat]
    /\ hostParent' = [h \in HostPids |->
                         IF hostParent[h] = p THEN 0 ELSE hostParent[h]]
    /\ MINIXCompat_ProcessTable' = [MINIXCompat_ProcessTable EXCEPT ![p] = <<>>]
    /\ MINIXCompat_ProcessTable_Size' = [MINIXCompat_ProcessTable_Size EXCEPT ![p] = 0]
    /\ minix_self_pid' = [minix_self_pid EXCEPT ![p] = 0]
    /\ minix_self_ppid' = [minix_self_ppid EXCEPT ![p] = 0]
    /\ minix_next_pid' = [minix_next_pid EXCEPT ![p] = 0]
    /\ forks_ok' = [forks_ok EXCEPT ![p] = 0]
    /\ waits_ok' = [waits_ok EXCEPT ![p] = 0]
    /\ last' = [op |-> "terminate", proc |-> p]
    /\ UNCHANGED <<host_used, total_forks, born_as>>

\* A terminated process whose parent is not an emulated process (the
\* process that started the emulator, or the host's init) is reaped by it:
\* its host pid is free again.
HostReap(h) ==
    /\ UNCHANGED <<sigVars, restVars>>
    /\ hostState[h] = "zombie"
    /\ UNCHANGED wait_eintr
    /\ \/ hostParent[h] = 0
       \/ hostParent[h] \in HostPids /\ hostState[hostParent[h]] = "host"
    /\ hostState' = [hostState EXCEPT ![h] = "free"]
    /\ hostParent' = [hostParent EXCEPT ![h] = 0]
    /\ hostStat' = [hostStat EXCEPT ![h] = NoStat]
    /\ born_as' = [born_as EXCEPT ![h] = 0]
    /\ last' = [op |-> "reap", proc |-> h]
    /\ UNCHANGED <<host_used, MINIXCompat_ProcessTable, MINIXCompat_ProcessTable_Size,
                   minix_self_pid, minix_self_ppid, minix_next_pid, forks_ok,
                   waits_ok, total_forks>>

\* A faulty variant: no failure is retried.
WaitRetries_Never(host_errno) == host_errno = "none"

\* The loop condition of MINIXCompat_Processes_wait after a failed host
\* wait: host_pid == -1 && errno == EINTR.
WaitRetries(host_errno) == host_errno = "EINTR"

\* MINIXCompat_Processes_wait in process p, a signal interrupting the host
\* wait while no child of p has terminated: the host wait fails with EINTR
\* and p goes round the loop (or, were EINTR not retried, returns).
WaitInterrupted(p) ==
    /\ UNCHANGED <<sigVars, restVars>>
    /\ Running(p)
    /\ wait_eintr[p] < MaxEINTR
    /\ HostChildren(p) # {}
    /\ \A c \in HostChildren(p) : hostState[c] # "zombie"
    /\ IF WaitRetries("EINTR")
       THEN /\ wait_eintr' = [wait_eintr EXCEPT ![p] = @ + 1]
            /\ last' = [op |-> "wait_eintr", proc |-> p, eintr |-> wait_eintr[p] + 1,
                        pre |-> MINIXCompat_ProcessTable[p]]
       ELSE /\ wait_eintr' = [wait_eintr EXCEPT ![p] = 0]
            /\ last' = [op |-> "wait_failed", proc |-> p, eintr |-> wait_eintr[p],
                        ret |-> Int16(-MINIXCompat_Errors_MINIXErrorForHostError("EINTR")),
                        pre |-> MINIXCompat_ProcessTable[p]]
    /\ UNCHANGED <<hostState, hostParent, hostStat, host_used, MINIXCompat_ProcessTable,
                   MINIXCompat_ProcessTable_Size, minix_self_pid,
                   minix_self_ppid, minix_next_pid, forks_ok, waits_ok,
                   total_forks, born_as>>

\* MINIXCompat_Processes_wait in process p built with assertions, the host
\* reaping a terminated child c that the table does not know: the
\* assert(minix_pid > 0) of MINIXCompat_Processes_RemoveMINIXProcess fails
\* and abort() ends p with SIGABRT.
WaitAborted(p, c) ==
    /\ UNCHANGED <<sigVars, restVars>>
    /\ Running(p)
    /\ c \in HostChildren(p)
    /\ hostState[c] = "zombie"
    /\ WaitResult(MINIXCompat_ProcessTable[p], MINIXCompat_ProcessTable_Size[p],
                  c, hostStat[c]).asserted
    /\ hostState' = [hostState EXCEPT ![c] = "free", ![p] = "zombie"]
    /\ hostStat' = [hostStat EXCEPT ![c] = NoStat, ![p] = HostSignaled(6)]
    /\ hostParent' = [h \in HostPids |->
                         IF h = c \/ hostParent[h] = p THEN 0 ELSE hostParent[h]]
    /\ MINIXCompat_ProcessTable' = [MINIXCompat_ProcessTable EXCEPT ![p] = <<>>]
    /\ MINIXCompat_ProcessTable_Size' = [MINIXCompat_ProcessTable_Size EXCEPT ![p] = 0]
    /\ minix_self_pid' = [minix_self_pid EXCEPT ![p] = 0]
    /\ minix_self_ppid' = [minix_self_ppid EXCEPT ![p] = 0]
    /\ minix_next_pid' = [minix_next_pid EXCEPT ![p] = 0]
    /\ forks_ok' = [forks_ok EXCEPT ![p] = 0]
    /\ waits_ok' = [waits_ok EXCEPT ![p] = 0]
    /\ wait_eintr' = [wait_eintr EXCEPT ![p] = 0]
    /\ born_as' = [born_as EXCEPT ![c] = 0]
    /\ last' = [op |-> "wait_abort", proc |-> p, eintr |-> wait_eintr[p],
                host_pid |-> c, host_stat |-> hostStat[c],
                pre |-> MINIXCompat_ProcessTable[p],
                pre_size |-> MINIXCompat_ProcessTable_Size[p]]
    /\ UNCHANGED <<host_used, total_forks>>

\* A host process that is not an emulator ends with host status host_stat.
PlainExit(h, host_stat) ==
    /\ UNCHANGED <<sigVars, restVars>>
    /\ hostState[h] = "plain"
    /\ hostState' = [hostState EXCEPT ![h] = "zombie"]
    /\ hostStat' = [hostStat EXCEPT ![h] = host_stat]
    /\ last' = [op |-> "plain_exit", proc |-> h]
    /\ UNCHANGED <<hostParent, host_used, MINIXCompat_ProcessTable,
                   MINIXCompat_ProcessTable_Size, minix_self_pid, minix_self_ppid,
                   minix_next_pid, forks_ok, waits_ok, total_forks, born_as,
                   wait_eintr>>

\* The process tree: fork and wait in every process, and the host's part.
Next ==
    \/ \E p \in HostPids, e \in ForkErrnos : ForkFailed(p, e)
    \/ \E p \in HostPids, c \in HostPids : ForkOk(p, c)
    \/ \E p \in HostPids, c \in HostPids : WaitReaped(p, c)
    \/ \E p \in HostPids, c \in HostPids, st \in StopStats : WaitStopped(p, c, st)
    \/ \E p \in HostPids : WaitFailed(p)
    \/ \E p \in HostPids, st \in ExitStats : Terminate(p, st)
    \/ \E h \in HostPids : HostReap(h)

\* The status the processes of WaitNext end with.
WaitExitStats == {HostExited(42)}

\* The process tree with waits that signals interrupt.
WaitNext ==
    \/ \E p \in HostPids, c \in HostPids : ForkOk(p, c)
    \/ \E p \in HostPids, c \in HostPids : WaitReaped(p, c)
    \/ \E p \in HostPids, c \in HostPids, st \in StopStats : WaitStopped(p, c, st)
    \/ \E p \in HostPids : WaitFailed(p)
    \/ \E p \in HostPids : WaitInterrupted(p)
    \/ \E p \in HostPids, st \in WaitExitStats : Terminate(p, st)
    \/ \E h \in HostPids : HostReap(h)

\* The process tree of an initial process that had a child before it
\* became the emulator.
InheritedNext ==
    \/ \E p \in HostPids, c \in HostPids : ForkOk(p, c)
    \/ \E p \in HostPids, c \in HostPids : WaitReaped(p, c)
    \/ \E p \in HostPids, c \in HostPids : WaitAborted(p, c)
    \/ \E p \in HostPids, c \in HostPids, st \in StopStats : WaitStopped(p, c, st)
    \/ \E p \in HostPids : WaitFailed(p)
    \/ \E p \in HostPids, st \in ExitStats : Terminate(p, st)
    \/ \E h \in HostPids, st \in ExitStats : PlainExit(h, st)
    \/ \E h \in HostPids : HostReap(h)

\* The process tree with getpid / getppid in every process.
IdsNext ==
    \/ \E p \in HostPids : GetProcessIDs(p)
    \/ \E p \in HostPids, c \in HostPids : ForkOk(p, c)
    \/ \E p \in HostPids, c \in HostPids : WaitReaped(p, c)
    \/ \E p \in HostPids, st \in ExitStats : Terminate(p, st)
    \/ \E h \in HostPids : HostReap(h)

\* The process tree with kill in every process.
\* (A kill changes nothing but the history of the last call, so a kill that
\* follows a kill reaches no state that a single kill does not reach.)
KillNext ==
    \/ /\ last.op # "kill"
       /\ \E p \in HostPids, m \in KillPids, s \in KillSignals,
             e \in KillErrnos \cup {"none"} : Kill(p, m, s, e)
    \/ \E p \in HostPids, c \in HostPids : ForkOk(p, c)
    \/ \E p \in HostPids, c \in HostPids : WaitReaped(p, c)
    \/ \E p \in HostPids : Terminate(p, HostExited(42))
    \/ \E h \in HostPids : HostReap(h)

\* ------------------------------------------------------------------------

\* ------------------------------------------------------------------
\* Signals.
\*
\* A minix_sighandler_t is a 32-bit value, written here as the pair of its
\* high and low 16-bit halves.

minix_SIG_DFL == <<0, 0>>

minix_SIG_IGN == <<0, 1>>

minix_SIG_ERR == <<65535, 65535>>

\* No handler: what stands in the history for 'no call yet'.
NoHandler == <<>>

\* Guest (68K) handler addresses used as inputs.
GuestHandlers == {<<1, 0>>, <<1, 256>>}

SignalHandlers == {minix_SIG_DFL, minix_SIG_IGN, minix_SIG_ERR} \cup GuestHandlers

\* The host signals the host refuses to catch or ignore.
HostUncatchable == {"SIGKILL"}

HostTrampolines ==
    {"MINIXCompat_Processes_SignalHandler_DFL",
     "MINIXCompat_Processes_SignalHandler_Other"}

MINIXCompat_Processes_HostSignalHandlerForMINIXSignalHandler(minix_handler) ==
    IF minix_handler = minix_SIG_DFL
    THEN "MINIXCompat_Processes_SignalHandler_DFL"
    ELSE IF minix_handler = minix_SIG_IGN
    THEN "SIG_IGN"
    ELSE IF minix_handler = minix_SIG_ERR
    THEN "SIG_ERR"
    ELSE "MINIXCompat_Processes_SignalHandler_Other"

\* The host's signal(): it fails with SIG_ERR for a signal that cannot be
\* caught; given SIG_ERR as the handler it either fails too or installs it,
\* depending on the host (installs_err); otherwise it installs the handler
\* and returns the previous disposition.
HostSignal(dispositions, host_signal, host_handler, installs_err) ==
    IF host_signal \in HostUncatchable
    THEN [old |-> "SIG_ERR", dispositions |-> dispositions]
    ELSE IF host_handler = "SIG_ERR" /\ ~installs_err
    THEN [old |-> "SIG_ERR", dispositions |-> dispositions]
    ELSE [old |-> dispositions[host_signal],
          dispositions |-> [dispositions EXCEPT ![host_signal] = host_handler]]

\* What signal() stores in the handler table.
SignalStoredHandler(old_minix_handler, minix_handler) == minix_handler

\* A faulty variant: the host's answer is not looked at.
SignalReturnedHandler_TableOnly(old_minix_handler, old_host_handler) ==
    old_minix_handler

\* What signal() returns, from the table's old value and the host's answer.
SignalReturnedHandler(old_minix_handler, old_host_handler) ==
    IF old_host_handler = "SIG_DFL" THEN minix_SIG_DFL
    ELSE IF old_host_handler = "SIG_IGN" THEN minix_SIG_IGN
    ELSE IF old_host_handler = "SIG_ERR" THEN minix_SIG_ERR
    ELSE old_minix_handler

MINIXCompat_Processes_signal(handlers, dispositions, minix_signal, minix_handler, installs_err) ==
    LET old_minix_handler == handlers[minix_signal]
        host_signal == MINIXCompat_Processes_HostSignalForMINIXSignal(minix_signal)
        host_handler ==
            MINIXCompat_Processes_HostSignalHandlerForMINIXSignalHandler(minix_handler)
        host == HostSignal(dispositions, host_signal, host_handler, installs_err)
    IN  [ret |-> SignalReturnedHandler(old_minix_handler, host.old),
         handlers |-> [handlers EXCEPT ![minix_signal] =
                          SignalStoredHandler(old_minix_handler, minix_handler)],
         dispositions |-> host.dispositions]

\* A faulty variant: the aggregate flag is not set.
RegisterPendingSignal_FlagOnly(has_pending, pending, host_signal) ==
    LET minix_signal == MINIXCompat_Processes_MINIXSignalForHostSignal(host_signal)
    IN  [has_pending |-> has_pending,
         pending |-> IF minix_signal # 0
                     THEN [pending EXCEPT ![minix_signal] = TRUE]
                     ELSE pending]

\* The pending flags as MINIXCompat_Processes_RegisterPendingSignal leaves them.
MINIXCompat_Processes_RegisterPendingSignal(has_pending, pending, host_signal) ==
    LET minix_signal == MINIXCompat_Processes_MINIXSignalForHostSignal(host_signal)
    IN  IF minix_signal # 0
        THEN [has_pending |-> TRUE,
              pending |-> [pending EXCEPT ![minix_signal] = TRUE]]
        ELSE [has_pending |-> has_pending, pending |-> pending]

\* The emulated CPU as this file uses it: the program counter, the status
\* register, and the values pushed on the stack, oldest first, each with its
\* width in bits.
MINIXCompat_CPU_Push_32(c, value) ==
    [c EXCEPT !.stack = Append(@, [bits |-> 32, val |-> value])]

MINIXCompat_CPU_Push_16(c, value) ==
    [c EXCEPT !.stack = Append(@, [bits |-> 16, val |-> value])]

MINIXCompat_CPU_SetPC(c, address) == [c EXCEPT !.pc = address]

\* A faulty variant: PC is set to the handler before it is pushed.
HandlePendingSignal_SetPCFirst(c, handlers, minix_signal) ==
    LET handler == handlers[minix_signal]
    IN  IF handler \in {minix_SIG_IGN, minix_SIG_DFL, minix_SIG_ERR}
        THEN c
        ELSE LET c0 == MINIXCompat_CPU_SetPC(c, handler)
                 c1 == MINIXCompat_CPU_Push_32(c0, c0.pc)
                 c2 == MINIXCompat_CPU_Push_16(c1, c1.sr)
             IN  MINIXCompat_CPU_Push_16(c2, minix_signal)

MINIXCompat_Processes_HandlePendingSignal(c, handlers, minix_signal) ==
    LET handler == handlers[minix_signal]
    IN  IF handler = minix_SIG_IGN
        THEN c
        ELSE IF handler = minix_SIG_DFL
        THEN c
        ELSE IF handler = minix_SIG_ERR
        THEN c
        ELSE LET pc == c.pc
                 c1 == MINIXCompat_CPU_Push_32(c, pc)
                 sr == c1.sr
                 c2 == MINIXCompat_CPU_Push_16(c1, sr)
                 c3 == MINIXCompat_CPU_Push_16(c2, minix_signal)
             IN  MINIXCompat_CPU_SetPC(c3, handler)

\* Where the guest program starts, and a point it gets to by running.
GuestStart == [pc |-> <<0, 4096>>, sr |-> 0]

GuestPoint == [pc |-> <<0, 4100>>, sr |-> 4]

\* The mapped host signals whose disposition the process may have inherited
\* as ignored.
StartIgnorable == {"SIGINT"}

\* Outside MINIXCompat_Processes_HandlePendingSignals.
DrainIdle ==
    [pos |-> 0, tramp |-> FALSE, clear_due |-> FALSE, entry |-> <<>>, consumed |-> <<>>]

\* A faulty variant: the loop starts at SIGQUIT and never looks at SIGHUP
\* and SIGINT.
DrainEntered_StartsLate(clear_due) ==
    [pos |-> minix_SIGQUIT, tramp |-> FALSE, clear_due |-> clear_due,
     entry |-> [cpu |-> cpu, pending |-> MINIXCompat_Processes_PendingSignals],
     consumed |-> <<>>]

\* At the first loop iteration of MINIXCompat_Processes_HandlePendingSignals.
DrainEntered(clear_due) ==
    [pos |-> minix_SIGHUP, tramp |-> FALSE, clear_due |-> clear_due,
     entry |-> [cpu |-> cpu, pending |-> MINIXCompat_Processes_PendingSignals],
     consumed |-> <<>>]

SigInit(ignored) ==
    /\ minix_signal_handlers = [s \in 0..16 |-> minix_SIG_DFL]
    /\ MINIXCompat_Processes_HasPendingSignal = FALSE
    /\ MINIXCompat_Processes_PendingSignals = [s \in 0..16 |-> FALSE]
    /\ host_handlers =
           [g \in MappedHostSignals |-> IF g \in ignored THEN "SIG_IGN" ELSE "SIG_DFL"]
    /\ cpu = [pc |-> GuestStart.pc, sr |-> GuestStart.sr, stack |-> <<>>]
    /\ drain = DrainIdle
    /\ siglast = [op |-> "init"]
    /\ sighist = [passed |-> [s \in MinixSignals |-> NoHandler],
                  err |-> [s \in MinixSignals |-> FALSE],
                  ignored |-> ignored,
                  arrival |-> [s \in MinixSignals |-> NoHandler]]

\* signal(minix_signal, minix_handler), a system call of the guest: it runs
\* between two drains.
Signal(minix_signal, minix_handler, installs_err) ==
    /\ UNCHANGED <<procVars, restVars>>
    /\ drain.pos = 0
    /\ installs_err => minix_handler = minix_SIG_ERR
    /\ LET r == MINIXCompat_Processes_signal(minix_signal_handlers, host_handlers,
                                             minix_signal, minix_handler, installs_err)
       IN  /\ minix_signal_handlers' = r.handlers
           /\ host_handlers' = r.dispositions
           /\ siglast' = [op |-> "signal", sig |-> minix_signal,
                          handler |-> minix_handler, ret |-> r.ret,
                          pre |-> minix_signal_handlers,
                          earlier |-> sighist.passed[minix_signal],
                          err |-> sighist.err[minix_signal]
                                      \/ minix_handler = minix_SIG_ERR]
    /\ sighist' = [sighist EXCEPT
                       !.passed[minix_signal] = minix_handler,
                       !.err[minix_signal] = @ \/ minix_handler = minix_SIG_ERR]
    /\ UNCHANGED <<MINIXCompat_Processes_HasPendingSignal,
                   MINIXCompat_Processes_PendingSignals, cpu, drain>>

\* The host delivers host_signal to one of the two trampolines, at any
\* moment, also between two steps of a drain.
MINIXCompat_Processes_SignalHandler(host_signal) ==
    /\ UNCHANGED <<procVars, restVars>>
    /\ host_handlers[host_signal] \in HostTrampolines
    /\ LET r == MINIXCompat_Processes_RegisterPendingSignal(
                    MINIXCompat_Processes_HasPendingSignal,
                    MINIXCompat_Processes_PendingSignals, host_signal)
       IN  /\ MINIXCompat_Processes_HasPendingSignal' = r.has_pending
           /\ MINIXCompat_Processes_PendingSignals' = r.pending
    /\ drain' = [drain EXCEPT !.tramp = (drain.pos # 0)]
    /\ siglast' = [op |-> "trampoline", host_signal |-> host_signal]
    /\ LET s == MINIXCompat_Processes_MINIXSignalForHostSignal(host_signal)
       IN  sighist' = IF MINIXCompat_Processes_PendingSignals[s]
                      THEN sighist
                      ELSE [sighist EXCEPT !.arrival[s] = minix_signal_handlers[s]]
    /\ UNCHANGED <<minix_signal_handlers, host_handlers, cpu>>

\* MINIXCompat_Processes_HandlePendingSignals, entry: the test of the
\* aggregate flag and its clearing.
HandlePendingSignals_Enter ==
    /\ UNCHANGED <<procVars, restVars>>
    /\ drain.pos = 0
    /\ IF MINIXCompat_Processes_HasPendingSignal
       THEN /\ MINIXCompat_Processes_HasPendingSignal' = FALSE
            /\ drain' = DrainEntered(FALSE)
            /\ siglast' = [op |-> "drain_enter"]
       ELSE /\ UNCHANGED <<MINIXCompat_Processes_HasPendingSignal, drain>>
            /\ siglast' = [op |-> "drain", was_pending |-> FALSE, tramp |-> FALSE,
                           pre |-> <<minix_signal_handlers,
                                     MINIXCompat_Processes_HasPendingSignal,
                                     MINIXCompat_Processes_PendingSignals,
                                     host_handlers, cpu>>]
    /\ UNCHANGED <<minix_signal_handlers, MINIXCompat_Processes_PendingSignals,
                   host_handlers, cpu, sighist>>

\* A faulty variant: the flag of a consumed signal stays set.
ConsumedFlag_Kept(flag) == flag

\* The flag of a consumed signal after the loop body.
ConsumedFlag(flag) == FALSE

\* A faulty variant: the handler of a signal is the one the table held when
\* the signal arrived.
HandlerAtDrain_FromArrival(handlers, arrival, minix_signal) ==
    IF arrival[minix_signal] # NoHandler
    THEN arrival[minix_signal]
    ELSE handlers[minix_signal]

\* The handler MINIXCompat_Processes_HandlePendingSignal acts on: the entry
\* of the table when it is called.
HandlerAtDrain(handlers, arrival, minix_signal) == handlers[minix_signal]

\* One iteration of the loop, for the signal drain.pos.
HandlePendingSignals_Step ==
    /\ UNCHANGED <<procVars, restVars>>
    /\ drain.pos \in minix_SIGHUP..minix_SIGSTKFLT
    /\ LET minix_signal == drain.pos
       IN  IF MINIXCompat_Processes_PendingSignals[minix_signal]
           THEN /\ (minix_signal_handlers[minix_signal] \in GuestHandlers)
                       => Len(cpu.stack) < 3 * MaxFrames
                /\ MINIXCompat_Processes_PendingSignals' =
                       [MINIXCompat_Processes_PendingSignals EXCEPT
                            ![minix_signal] = ConsumedFlag(@)]
                /\ cpu' = MINIXCompat_Processes_HandlePendingSignal(
                              cpu,
                              [minix_signal_handlers EXCEPT ![minix_signal] =
                                   HandlerAtDrain(minix_signal_handlers,
                                                  sighist.arrival, minix_signal)],
                              minix_signal)
                /\ siglast' = [op |-> "consume", sig |-> minix_signal,
                               handler |-> minix_signal_handlers[minix_signal],
                               arrival |-> sighist.arrival[minix_signal],
                               pre |-> cpu]
                /\ sighist' = [sighist EXCEPT !.arrival[minix_signal] = NoHandler]
           ELSE UNCHANGED <<MINIXCompat_Processes_PendingSignals, cpu, siglast,
                            sighist>>
    /\ drain' = [drain EXCEPT
                     !.pos = @ + 1,
                     !.consumed =
                         IF MINIXCompat_Processes_PendingSignals[drain.pos]
                         THEN Append(@, [sig |-> drain.pos,
                                         handler |-> minix_signal_handlers[drain.pos]])
                         ELSE @]
    /\ UNCHANGED <<minix_signal_handlers, MINIXCompat_Processes_HasPendingSignal,
                   host_handlers>>

\* The loop's exit and the return.
HandlePendingSignals_Return ==
    /\ UNCHANGED <<procVars, restVars>>
    /\ drain.pos = minix_SIGSTKFLT + 1
    /\ drain' = DrainIdle
    /\ siglast' = [op |-> "drain", was_pending |-> TRUE, tramp |-> drain.tramp]
    /\ UNCHANGED <<minix_signal_handlers, MINIXCompat_Processes_HasPendingSignal,
                   MINIXCompat_Processes_PendingSignals, host_handlers, cpu,
                   sighist>>

\* The guest program runs between two drains, from its start or from a
\* handler it was sent to, and gets to GuestPoint.
GuestRun ==
    /\ UNCHANGED <<procVars, restVars>>
    /\ drain.pos = 0
    /\ cpu.pc # GuestPoint.pc
    /\ cpu' = [cpu EXCEPT !.pc = GuestPoint.pc, !.sr = GuestPoint.sr]
    /\ siglast' = [op |-> "run"]
    /\ UNCHANGED <<minix_signal_handlers, MINIXCompat_Processes_HasPendingSignal,
                   MINIXCompat_Processes_PendingSignals, host_handlers, drain,
                   sighist>>

\* The signals and handlers given to signal() where only its results matter.
SignalCallSignals == {minix_SIGINT, minix_SIGKILL}

SignalNext ==
    \E minix_signal \in SignalCallSignals, minix_handler \in SignalHandlers,
       installs_err \in BOOLEAN :
        Signal(minix_signal, minix_handler, installs_err)

\* The signal() calls made where signals are delivered.
DrainCalls ==
    ({minix_SIGINT} \X {minix_SIG_DFL, minix_SIG_IGN, minix_SIG_ERR, <<1, 0>>})
        \cup ({minix_SIGTERM} \X {<<1, 256>>})

DrainNext ==
    \/ \E call \in DrainCalls : Signal(call[1], call[2], FALSE)
    \/ \E host_signal \in MappedHostSignals :
           MINIXCompat_Processes_SignalHandler(host_signal)
    \/ HandlePendingSignals_Enter
    \/ HandlePendingSignals_Step
    \/ HandlePendingSignals_Return
    \/ GuestRun

\* ------------------------------------------------------------------------
\* The drain as the compiled program runs it, with signals arriving.
\*
\* MINIXCompat_Processes_HasPendingSignal and
\* MINIXCompat_Processes_PendingSignals are plain static bool objects,
\* neither volatile nor sig_atomic_t, that the trampolines write from a
\* signal handler while MINIXCompat_Processes_HandlePendingSignals reads and
\* writes them.  C leaves this undefined; the compiler is free to order the
\* store of false to the aggregate flag and the loads of the per-signal flags
\* as it likes, as long as the store is made before the call of
\* MINIXCompat_Processes_HandlePendingSignal (which leaves the file) and
\* before the return.  The steps below allow every such order, the source
\* order included.

\* The test of the aggregate flag.
HandlePendingSignals_Test ==
    /\ UNCHANGED <<procVars, restVars>>
    /\ drain.pos = 0
    /\ IF MINIXCompat_Processes_HasPendingSignal
       THEN /\ drain' = DrainEntered(TRUE)
            /\ siglast' = [op |-> "drain_test"]
       ELSE /\ UNCHANGED drain
            /\ siglast' = [op |-> "drain_none"]
    /\ UNCHANGED <<minix_signal_handlers, MINIXCompat_Processes_HasPendingSignal,
                   MINIXCompat_Processes_PendingSignals, host_handlers, cpu,
                   sighist>>

\* The store of false to the aggregate flag.
HandlePendingSignals_Clear ==
    /\ UNCHANGED <<procVars, restVars>>
    /\ drain.clear_due
    /\ MINIXCompat_Processes_HasPendingSignal' = FALSE
    /\ drain' = [drain EXCEPT !.clear_due = FALSE]
    /\ siglast' = [op |-> "drain_clear"]
    /\ UNCHANGED <<minix_signal_handlers, MINIXCompat_Processes_PendingSignals,
                   host_handlers, cpu, sighist>>

\* One iteration of the loop: an iteration that finds its flag set is made
\* after the store of false to the aggregate flag.
HandlePendingSignals_StepCompiled ==
    /\ drain.pos \in MinixSignals
    /\ MINIXCompat_Processes_PendingSignals[drain.pos] => ~drain.clear_due
    /\ HandlePendingSignals_Step

\* The return, after the store.
HandlePendingSignals_ReturnCompiled ==
    /\ ~drain.clear_due
    /\ HandlePendingSignals_Return

RaceNext ==
    \/ \E call \in {<<minix_SIGINT, minix_SIG_DFL>>, <<minix_SIGTERM, <<1, 256>>>>} :
           Signal(call[1], call[2], FALSE)
    \/ \E host_signal \in MappedHostSignals :
           MINIXCompat_Processes_SignalHandler(host_signal)
    \/ HandlePendingSignals_Test
    \/ HandlePendingSignals_Clear
    \/ HandlePendingSignals_StepCompiled
    \/ HandlePendingSignals_ReturnCompiled

\* ------------------------------------------------------------------------
\* The break (MINIXCompat_Processes_brk).  A 32-bit address is the pair
\* <<high 16 bits, low 16 bits>>.

minix_ENOMEM == 12

MINIXCompat_Executable_Limit == <<254, 0>>

Addr32Less(a, b) == a[1] < b[1] \/ (a[1] = b[1] /\ a[2] < b[2])

\* A faulty variant: the limit itself is accepted.
BrkAccepts_LimitIncluded(minix_requested_addr, initial_break) ==
    /\ ~Addr32Less(MINIXCompat_Executable_Limit, minix_requested_addr)
    /\ ~Addr32Less(minix_requested_addr, initial_break)

\* The test of MINIXCompat_Processes_brk.
BrkAccepts(minix_requested_addr, initial_break) ==
    /\ Addr32Less(minix_requested_addr, MINIXCompat_Executable_Limit)
    /\ ~Addr32Less(minix_requested_addr, initial_break)

\* MINIXCompat_Processes_brk: the static is set from the executable's
\* initial break while it is 0, then the request is tested.
MINIXCompat_Processes_brk(current_break, initial_break, minix_requested_addr) ==
    LET lazy == IF current_break = <<0, 0>> THEN initial_break ELSE current_break
    IN  IF BrkAccepts(minix_requested_addr, initial_break)
        THEN [result |-> 0, out |-> minix_requested_addr,
              current_break |-> minix_requested_addr]
        ELSE [result |-> Int16(-minix_ENOMEM), out |-> <<65535, 65535>>,
              current_break |-> lazy]

\* The initial breaks of the executables the model loads, and the addresses
\* the guest requests.
InitialBreaks == {<<1, 512>>, <<16, 0>>, <<32, 4096>>}

BrkRequests ==
    {<<0, 0>>, <<0, 256>>, <<15, 65535>>, <<16, 0>>, <<32, 0>>, <<32, 4096>>,
     <<128, 2>>, <<253, 65535>>, <<254, 0>>, <<65535, 65535>>}

BrkInit(initial_break) ==
    /\ minix_current_break = <<0, 0>>
    /\ executable_initial_break = initial_break
    /\ brklast = [op |-> "none"]

\* The guest calls brk(minix_requested_addr).
Brk(minix_requested_addr) ==
    /\ UNCHANGED <<procVars, sigVars>>
    /\ LET r == MINIXCompat_Processes_brk(minix_current_break,
                                          executable_initial_break,
                                          minix_requested_addr)
       IN  /\ minix_current_break' = r.current_break
           /\ brklast' = [op |-> "brk", req |-> minix_requested_addr,
                          pre |-> minix_current_break, result |-> r.result,
                          out |-> r.out]
    /\ UNCHANGED <<executable_initial_break, execVars, auxVars>>

BrkNext == \E req \in BrkRequests : Brk(req)

\* ------------------------------------------------------------------------
\* Exec (MINIXCompat_Processes_ExecuteWithStackBlock and
\* MINIXCompat_Processes_ExecuteWithHostParams).  Emulated RAM maps the
\* addresses that hold a nonzero byte to that byte; every other address
\* holds 0.  A C string is the sequence of its character codes, without
\* the terminating NUL.

MINIXCompat_Executable_Base == 4096

MINIXCompat_Stack_Base == 16646144

EmptyRAM == [a \in {} |-> 0]

RAMByte(r, a) == IF a \in DOMAIN r THEN r[a] ELSE 0

\* The calls made to the collaborators, in the order they are made.
RAM_Clear == [call |-> "MINIXCompat_RAM_Clear", addr |-> 0, bytes |-> <<>>]

RAM_Copy_Block_From_Host(addr, bytes) ==
    [call |-> "MINIXCompat_RAM_Copy_Block_From_Host", addr |-> addr, bytes |-> bytes]

Execution_ChangeState_Ready ==
    [call |-> "MINIXCompat_Execution_ChangeState", addr |-> 0, bytes |-> <<>>]

\* What one collaborator call does to the RAM and to the execution state.
AfterCall(m, c) ==
    IF c.call = "MINIXCompat_RAM_Clear"
    THEN [m EXCEPT !.ram = EmptyRAM]
    ELSE IF c.call = "MINIXCompat_Execution_ChangeState"
    THEN [m EXCEPT !.state = "Ready"]
    ELSE LET block == {c.addr + i - 1 : i \in 1..Len(c.bytes)}
             dom == (DOMAIN m.ram \ block)
                        \cup {a \in block : c.bytes[a - c.addr + 1] # 0}
         IN  [m EXCEPT !.ram = [a \in dom |->
                                   IF a \in block THEN c.bytes[a - c.addr + 1]
                                   ELSE m.ram[a]]]

RECURSIVE AfterCalls(_, _)
AfterCalls(m, calls) ==
    IF calls = <<>> THEN m
    ELSE AfterCalls(AfterCall(m, Head(calls)), Tail(calls))

\* htonl: the four bytes of a 32-bit value in big-endian memory order, and
\* ntohl: the value of four such bytes.
htonl(x) == <<(x \div 16777216) % 256, (x \div 65536) % 256, (x \div 256) % 256, x % 256>>

ntohl(b) == ((b[1] * 256 + b[2]) * 256 + b[3]) * 256 + b[4]

\* A tool file on the host: the errno of stat ("none": it exists), whether
\* fopen succeeds, the result of MINIXCompat_Executable_Load and, when that
\* is 0, the relocated text and data and the initial break.
Tool(stat_errno, opens, load_err, image, initial_break) ==
    [stat_errno |-> stat_errno, opens |-> opens, load_err |-> load_err,
     image |-> image, initial_break |-> initial_break]

minix_ENOEXEC == 8

Tools ==
    {Tool("ENOENT", FALSE, 0, <<>>, <<0, 0>>),
     Tool("none", FALSE, 0, <<>>, <<0, 0>>),
     Tool("none", TRUE, -minix_ENOEXEC, <<>>, <<0, 0>>),
     Tool("none", TRUE, 0, <<78, 113, 0, 7>>, <<16, 0>>),
     Tool("none", TRUE, 0, <<96, 2>>, <<32, 4096>>)}

\* A faulty variant: the image is copied before the loader's result is
\* looked at, and the result is lost.
LoadTool_IgnoresLoadError(tool) ==
    IF tool.stat_errno # "none"
    THEN [result |-> Int16(-MINIXCompat_Errors_MINIXErrorForHostError(tool.stat_errno)),
          calls |-> <<>>]
    ELSE [result |-> 0,
          calls |-> <<RAM_Copy_Block_From_Host(MINIXCompat_Executable_Base, tool.image)>>]

\* MINIXCompat_Processes_LoadTool.
MINIXCompat_Processes_LoadTool(tool) ==
    IF tool.stat_errno # "none"
    THEN [result |-> Int16(-MINIXCompat_Errors_MINIXErrorForHostError(tool.stat_errno)),
          calls |-> <<>>]
    ELSE IF ~tool.opens
    THEN [result |-> Int16(-MINIXCompat_Errors_MINIXErrorForHostError("EIO")),
          calls |-> <<>>]
    ELSE IF tool.load_err # 0
    THEN [result |-> Int16(tool.load_err), calls |-> <<>>]
    ELSE [result |-> 0,
          calls |-> <<RAM_Copy_Block_From_Host(MINIXCompat_Executable_Base, tool.image)>>]

\* The 32-bit word at index i (from 0) of a block of bytes.
WordAt(block, i) == SubSeq(block, 4 * i + 1, 4 * i + 4)

SetWord(block, i, w) ==
    [k \in 1..Len(block) |->
        IF k > 4 * i /\ k <= 4 * i + 4 THEN w[k - 4 * i] ELSE block[k]]

\* The two relocation loops: from word i, add the stack base to every word
\* up to the first zero word; stack is the index of that zero word.
RECURSIVE RelocateFrom(_, _)
RelocateFrom(block, i) ==
    IF ntohl(WordAt(block, i)) = 0 THEN [block |-> block, stack |-> i]
    ELSE RelocateFrom(
             SetWord(block, i, htonl(ntohl(WordAt(block, i)) + MINIXCompat_Stack_Base)),
             i + 1)

\* A faulty variant: only the argv pointers are relocated.
RelocatedStack_ArgvOnly(stack_on_host) == RelocateFrom(stack_on_host, 1).block

RelocatedStack(stack_on_host) ==
    LET argv == RelocateFrom(stack_on_host, 1)
        envp == RelocateFrom(argv.block, argv.stack + 1)
    IN  envp.block

\* A faulty variant: the RAM is cleared after the image is in place.
ExecuteWithStackBlock_ClearsLate(tool, stack_on_host, stack_size) ==
    LET load == MINIXCompat_Processes_LoadTool(tool)
    IN  IF load.result # 0
        THEN [result |-> load.result, calls |-> load.calls \o <<RAM_Clear>>]
        ELSE [result |-> 0,
              calls |-> load.calls \o <<RAM_Clear>> \o
                        <<RAM_Copy_Block_From_Host(
                              MINIXCompat_Stack_Base,
                              SubSeq(RelocatedStack(stack_on_host), 1, stack_size)),
                          Execution_ChangeState_Ready>>]

\* MINIXCompat_Processes_ExecuteWithStackBlock.
MINIXCompat_Processes_ExecuteWithStackBlock(tool, stack_on_host, stack_size) ==
    LET load == MINIXCompat_Processes_LoadTool(tool)
    IN  IF load.result # 0
        THEN [result |-> load.result, calls |-> <<RAM_Clear>> \o load.calls]
        ELSE [result |-> 0,
              calls |-> <<RAM_Clear>> \o load.calls \o
                        <<RAM_Copy_Block_From_Host(
                              MINIXCompat_Stack_Base,
                              SubSeq(RelocatedStack(stack_on_host), 1, stack_size)),
                          Execution_ChangeState_Ready>>]

\* round_up_32 as the macro computes it.
round_up_32(x) == x + (4 - (x % 4))

\* "MINIXCompat"
Str_MINIXCompat == <<77, 73, 78, 73, 88, 67, 111, 109, 112, 97, 116>>

\* "prog"
Str_prog == <<112, 114, 111, 103>>

\* "a"
Str_a == <<97>>

\* "abc"
Str_abc == <<97, 98, 99>>

\* ""
Str_empty == <<>>

\* "PATH=/"
Str_PATH == <<80, 65, 84, 72, 61, 47>>

\* "MINIX_HOME=/u"
Str_MINIX_HOME == <<77, 73, 78, 73, 88, 95, 72, 79, 77, 69, 61, 47, 117>>

\* "MINIX_A=b"
Str_MINIX_A == <<77, 73, 78, 73, 88, 95, 65, 61, 98>>

\* "MINIX_"
Str_MINIX_only == <<77, 73, 78, 73, 88, 95>>

\* "XMINIX_B=c"
Str_XMINIX == <<88, 77, 73, 78, 73, 88, 95, 66, 61, 99>>

\* "MINIX"
Str_MINIX_short == <<77, 73, 78, 73, 88>>

\* strncmp("MINIX_", s, 6) == 0.
HasMINIXPrefix(s) == Len(s) >= 6 /\ SubSeq(s, 1, 6) = Str_MINIX_only

\* strncpy(&content[content_offset], s, n): the characters of s, then NULs,
\* n bytes in all.
strncpy(content, content_offset, s, n) ==
    [k \in 1..Len(content) |->
        IF k > content_offset /\ k <= content_offset + n
        THEN IF k - content_offset <= Len(s) THEN s[k - content_offset] ELSE 0
        ELSE content[k]]

RECURSIVE ContentSize(_)
ContentSize(strings) ==
    IF strings = <<>> THEN 0
    ELSE round_up_32(Len(Head(strings)) + 1) + ContentSize(Tail(strings))

\* A faulty variant: the pointer is taken after the offset has advanced.
RECURSIVE PlaceStrings_PointerLate(_, _, _, _)
PlaceStrings_PointerLate(strings, m, first_addr, content_size) ==
    IF strings = <<>> THEN m
    ELSE PlaceStrings_PointerLate(
             Tail(strings),
             [content |-> strncpy(m.content, m.content_offset, Head(strings),
                                  content_size - m.content_offset),
              pointers |-> Append(m.pointers,
                                  first_addr + m.content_offset
                                      + round_up_32(Len(Head(strings)) + 1)),
              content_offset |-> m.content_offset + round_up_32(Len(Head(strings)) + 1)],
             first_addr, content_size)

\* The copy loops: each string is copied at content_offset, its emulated
\* address is appended to the pointers, and the offset advances.
RECURSIVE PlaceStrings(_, _, _, _)
PlaceStrings(strings, m, first_addr, content_size) ==
    IF strings = <<>> THEN m
    ELSE PlaceStrings(
             Tail(strings),
             [content |-> strncpy(m.content, m.content_offset, Head(strings),
                                  content_size - m.content_offset),
              pointers |-> Append(m.pointers, first_addr + m.content_offset),
              content_offset |-> m.content_offset + round_up_32(Len(Head(strings)) + 1)],
             first_addr, content_size)

RECURSIVE Words(_)
Words(values) ==
    IF values = <<>> THEN <<>> ELSE htonl(Head(values)) \o Words(Tail(values))

\* A faulty variant: the strings are copied with their prefix.
StrippedEnvironment_KeepsPrefix(host_envp) == SelectSeq(host_envp, HasMINIXPrefix)

\* The strings the environment loops copy: those with the prefix, from
\* their seventh character.
StrippedEnvironment(host_envp) ==
    LET prefixed == SelectSeq(host_envp, HasMINIXPrefix)
    IN  [i \in 1..Len(prefixed) |-> SubSeq(prefixed[i], 7, Len(prefixed[i]))]

\* MINIXCompat_Arguments_Initialize: the two copies it makes.
MINIXCompat_Arguments_Initialize(host_argc, host_argv, host_envc, host_envp) ==
    LET argc_argv_envp_count == 1 + (host_argc + 1) + (host_envc + 1)
        argc_ragv_envp_size == argc_argv_envp_count * 4
        environment == StrippedEnvironment(host_envp)
        content_size == ContentSize(host_argv) + ContentSize(environment)
        first_addr == MINIXCompat_Stack_Base + argc_ragv_envp_size
        start == [content |-> [k \in 1..content_size |-> 0], pointers |-> <<>>,
                  content_offset |-> 0]
        argv == PlaceStrings(host_argv, start, first_addr, content_size)
        envp == PlaceStrings(environment, [argv EXCEPT !.pointers = <<>>],
                             first_addr, content_size)
        argc_argv_envp == Words(<<host_argc>> \o argv.pointers \o <<0>> \o
                                envp.pointers \o <<0>>)
    IN  <<RAM_Copy_Block_From_Host(MINIXCompat_Stack_Base,
                                   SubSeq(argc_argv_envp, 1, argc_ragv_envp_size)),
          RAM_Copy_Block_From_Host(MINIXCompat_Stack_Base + argc_ragv_envp_size,
                                   envp.content)>>

\* The number of strings of envp with the prefix, as the counting loop of
\* MINIXCompat_Processes_ExecuteWithHostParams finds it.
CountedEnvironment(envp) == Len(SelectSeq(envp, HasMINIXPrefix))

\* MINIXCompat_Processes_ExecuteWithHostParams; argv[0] is skipped.
MINIXCompat_Processes_ExecuteWithHostParams(tool, argc, argv, envp) ==
    LET load == MINIXCompat_Processes_LoadTool(tool)
        host_argc == argc - 1
        host_argv == Tail(argv)
        host_envc == CountedEnvironment(envp)
        host_envp == envp
    IN  IF load.result # 0
        THEN [result |-> load.result, calls |-> load.calls]
        ELSE [result |-> 0,
              calls |-> load.calls \o
                        MINIXCompat_Arguments_Initialize(host_argc, host_argv,
                                                         host_envc, host_envp) \o
                        <<Execution_ChangeState_Ready>>]

\* The host argument vectors (argv[0] names the emulator) and environments
\* the model starts the emulator with.
HostArgvs ==
    {<<Str_MINIXCompat, Str_prog, Str_a>>,
     <<Str_MINIXCompat, Str_abc>>,
     <<Str_MINIXCompat, Str_prog, Str_empty, Str_abc>>}

HostEnvps ==
    {<<>>,
     <<Str_PATH, Str_MINIX_HOME>>,
     <<Str_MINIX_A, Str_XMINIX, Str_MINIX_only>>,
     <<Str_MINIX_short, Str_MINIX_HOME, Str_PATH, Str_MINIX_A>>}

\* The stack blocks the guest passes to exec: argc, offsets of the argv
\* strings, 0, offsets of the envp strings, 0, the strings.
StackBlocks ==
    {Words(<<1, 16, 0, 0>>) \o <<97, 0, 0, 0>>,
     Words(<<0, 0, 16, 0>>) \o <<65, 61, 98, 0>>,
     Words(<<2, 24, 28, 0, 32, 0>>) \o <<108, 115, 0, 0>> \o <<45, 108, 0, 0>>
         \o <<65, 61, 98, 0>>}

ExecInit ==
    /\ ram = EmptyRAM
    /\ execution_state = "Started"
    /\ execlast = [op |-> "none"]

\* What a call leaves behind: the RAM and the state after its collaborator
\* calls, and the initial break of the executable it loaded.
ExecDone(op, tool, r, input) ==
    LET m == AfterCalls([ram |-> ram, state |-> execution_state], r.calls)
    IN  /\ ram' = m.ram
        /\ execution_state' = m.state
        /\ executable_initial_break' =
               IF tool.stat_errno = "none" /\ tool.opens /\ tool.load_err = 0
               THEN tool.initial_break ELSE executable_initial_break
        /\ execlast' = [op |-> op, tool |-> tool, input |-> input,
                        result |-> r.result, calls |-> r.calls,
                        pre_ram |-> ram, pre_state |-> execution_state]
        /\ UNCHANGED <<minix_current_break, brklast, auxVars>>

\* The emulator's entry from the host: exec of the tool the host names.
ExecuteWithHostParams(tool, argv, envp) ==
    /\ UNCHANGED <<procVars, sigVars>>
    /\ execution_state = "Started"
    /\ ExecDone("exec_host", tool,
                MINIXCompat_Processes_ExecuteWithHostParams(tool, Len(argv), argv, envp),
                [argv |-> argv, envp |-> envp, block |-> <<>>])

\* The guest's exec system call, with the stack block it built.
ExecuteWithStackBlock(tool, stack_on_host) ==
    /\ UNCHANGED <<procVars, sigVars>>
    /\ execution_state = "Running"
    /\ ExecDone("exec_stack", tool,
                MINIXCompat_Processes_ExecuteWithStackBlock(tool, stack_on_host,
                                                            Len(stack_on_host)),
                [argv |-> <<>>, envp |-> <<>>, block |-> stack_on_host])

\* The emulator restarts from the Ready state and runs the guest.
ExecutionRun ==
    /\ UNCHANGED <<procVars, sigVars>>
    /\ execution_state = "Ready"
    /\ execution_state' = "Running"
    /\ UNCHANGED <<ram, execlast, brkVars, auxVars>>

ExecNext ==
    \/ \E tool \in Tools, argv \in HostArgvs, envp \in HostEnvps :
           ExecuteWithHostParams(tool, argv, envp)
    \/ \E tool \in Tools, block \in StackBlocks : ExecuteWithStackBlock(tool, block)
    \/ ExecutionRun

\* ------------------------------------------------------------------------
\* The translation functions, applied on their own.

MINIXCompat_WTERMSIG(minix_wait_stat) == minix_wait_stat.sigstat

MINIXCompat_WEXITSTATUS(minix_wait_stat) == minix_wait_stat.exitstat

\* A MINIX wait status as MINIXCompat_Processes_StringForWaitStat reads it.
MINIXCompat_Processes_StringForWaitStat(minix_wait_stat) ==
    IF MINIXCompat_WIFEXITED(minix_wait_stat)
    THEN [kind |-> "exited", val |-> MINIXCompat_WEXITSTATUS(minix_wait_stat)]
    ELSE IF MINIXCompat_WIFSIGNALED(minix_wait_stat)
    THEN [kind |-> "signaled", val |-> MINIXCompat_WTERMSIG(minix_wait_stat)]
    ELSE [kind |-> "other", val |-> WaitStatRaw(minix_wait_stat)]

\* The signals of the host, by name.
HostSignals ==
    {"SIGHUP", "SIGINT", "SIGQUIT", "SIGILL", "SIGTRAP", "SIGABRT", "SIGBUS",
     "SIGFPE", "SIGKILL", "SIGUSR1", "SIGSEGV", "SIGUSR2", "SIGPIPE", "SIGALRM",
     "SIGTERM", "SIGCHLD", "SIGCONT", "SIGSTOP", "SIGTSTP", "SIGTTIN", "SIGTTOU",
     "SIGURG", "SIGXCPU", "SIGXFSZ", "SIGVTALRM", "SIGPROF", "SIGWINCH", "SIGIO",
     "SIGSYS"}

\* The host wait statuses: exit codes are 8 bits wide, signals are numbered
\* 1 to 31.
HostExitCodes == 0..255

HostSignalNumbers == 1..31

HostStats ==
    {HostExited(c) : c \in HostExitCodes}
        \cup {HostStopped(g) : g \in HostSignalNumbers}
        \cup {HostSignaled(g) : g \in HostSignalNumbers}

PureInit == pure = [op |-> "none"]

\* MINIXCompat_Processes_HostSignalForMINIXSignal applied to minix_signal,
\* and MINIXCompat_Processes_MINIXSignalForHostSignal to its result.
MapSignal(minix_signal) ==
    /\ UNCHANGED <<procVars, sigVars, brkVars, execVars, logVars>>
    /\ LET host_signal == MINIXCompat_Processes_HostSignalForMINIXSignal(minix_signal)
       IN  pure' = [op |-> "map", minix_signal |-> minix_signal,
                    host_signal |-> host_signal,
                    back |-> MINIXCompat_Processes_MINIXSignalForHostSignal(host_signal)]

\* MINIXCompat_Processes_MINIXSignalForHostSignal applied to host_signal.
UnmapSignal(host_signal) ==
    /\ UNCHANGED <<procVars, sigVars, brkVars, execVars, logVars>>
    /\ pure' = [op |-> "unmap", host_signal |-> host_signal,
                minix_signal |->
                    MINIXCompat_Processes_MINIXSignalForHostSignal(host_signal)]

\* MINIXCompat_Processes_MINIXStatForHostStat applied to host_stat, and the
\* MINIX predicates and accessors to its result.
EncodeStat(host_stat) ==
    /\ UNCHANGED <<procVars, sigVars, brkVars, execVars, logVars>>
    /\ LET minix_stat == MINIXCompat_Processes_MINIXStatForHostStat(host_stat)
       IN  pure' = [op |-> "encode", host_stat |-> host_stat,
                    minix_stat |-> minix_stat,
                    wifexited |-> MINIXCompat_WIFEXITED(minix_stat),
                    wexitstatus |-> MINIXCompat_WEXITSTATUS(minix_stat),
                    read_as |-> MINIXCompat_Processes_StringForWaitStat(minix_stat)]

PureNext ==
    \/ \E minix_signal \in MinixSignals : MapSignal(minix_signal)
    \/ \E host_signal \in HostSignals : UnmapSignal(host_signal)
    \/ \E host_stat \in HostStats : EncodeStat(host_stat)

\* ------------------------------------------------------------------------
\* Logging (MINIXCompat_Log_New), one step per system call.

\* What the host may have at the path of the log file, and the errno open
\* (with O_CREAT | O_EXCL) then fails with; "absent": open succeeds.
LogPaths == {"absent", "exists", "denied", "nodir"}

OpenErrno(path) ==
    CASE path = "exists" -> "EEXIST"
      [] path = "denied" -> "EACCES"
      [] path = "nodir"  -> "ENOENT"
      [] OTHER -> "none"

LogInit(path) ==
    /\ MINIXCompat_Log_File = -1
    /\ log_pc = "start"
    /\ log_errno = "none"
    /\ log_opens = 0
    /\ log_path = path

\* MINIXCompat_Log_Initialize up to the open loop: an inherited descriptor
\* is closed.
Log_New_Enter ==
    /\ UNCHANGED <<procVars, sigVars, brkVars, execVars, pure>>
    /\ log_pc = "start"
    /\ MINIXCompat_Log_File' = -1
    /\ log_pc' = "open"
    /\ log_opens' = 0
    /\ UNCHANGED <<log_errno, log_path>>

\* The condition of the open loop:
\* (MINIXCompat_Log_File == -1) && (errno != EINTR).
LogOpenRetries(file, host_errno) == file = -1 /\ host_errno # "EINTR"

\* One open of the loop; interrupted: a signal arrives during the open,
\* which fails with EINTR.
Log_New_Open(interrupted) ==
    /\ UNCHANGED <<procVars, sigVars, brkVars, execVars, pure>>
    /\ log_pc = "open"
    /\ LET failed == interrupted \/ log_path # "absent"
           file == IF failed THEN -1 ELSE 3
           host_errno == IF interrupted THEN "EINTR"
                         ELSE IF failed THEN OpenErrno(log_path) ELSE log_errno
       IN  /\ MINIXCompat_Log_File' = file
           /\ log_errno' = host_errno
           /\ log_path' = IF failed THEN log_path ELSE "exists"
           /\ log_pc' = "while"
    /\ log_opens' = IF log_opens < MaxOpens THEN log_opens + 1 ELSE log_opens

\* The test of the loop condition after an open.
Log_New_While ==
    /\ UNCHANGED <<procVars, sigVars, brkVars, execVars, pure>>
    /\ log_pc = "while"
    /\ log_pc' = IF LogOpenRetries(MINIXCompat_Log_File, log_errno)
                 THEN "open" ELSE "test"
    /\ UNCHANGED <<MINIXCompat_Log_File, log_errno, log_opens, log_path>>

\* After the loop: the message on stderr and assert(MINIXCompat_Log_File
\* != -1), which aborts the process; otherwise the log is written to.
Log_New_Test ==
    /\ UNCHANGED <<procVars, sigVars, brkVars, execVars, pure>>
    /\ log_pc = "test"
    /\ log_pc' = IF MINIXCompat_Log_File # -1 THEN "logging" ELSE "aborted"
    /\ UNCHANGED <<MINIXCompat_Log_File, log_errno, log_opens, log_path>>

\* fork: the model follows the child, which inherits the descriptor and
\* the errno and calls MINIXCompat_Log_Initialize; path is what the host
\* has at the path of the child's log file.
LogForkChild(path) ==
    /\ UNCHANGED <<procVars, sigVars, brkVars, execVars, pure>>
    /\ log_pc = "logging"
    /\ log_pc' = "start"
    /\ log_path' = path
    /\ UNCHANGED <<MINIXCompat_Log_File, log_errno, log_opens>>

\* The host: the file or directory in the way is removed or made writable.
LogPathCleared ==
    /\ UNCHANGED <<procVars, sigVars, brkVars, execVars, pure>>
    /\ log_pc = "open"
    /\ log_path # "absent"
    /\ log_path' = "absent"
    /\ UNCHANGED <<MINIXCompat_Log_File, log_pc, log_errno, log_opens>>

\* The steps of the process itself.
LogStep ==
    \/ Log_New_Enter
    \/ \E interrupted \in BOOLEAN : Log_New_Open(interrupted)
    \/ Log_New_While
    \/ Log_New_Test

LogNext ==
    \/ LogStep
    \/ \E path \in LogPaths : LogForkChild(path)
    \/ LogPathCleared

\* ------------------------------------------------------------------------
\* The process table of one process that forks many children and reaps
\* some of them, followed for the table alone (the other effects of fork
\* and wait are in the process actions above).  The fields of pure are then
\* the table and its size, the numbers of entries filled and removed so
\* far, and, after
\* a reservation, the table before it, the entry returned and the table as
\* MINIXCompat_Processes_NextFreeTableEntry left it.

TableInit ==
    LET init == MINIXCompat_Processes_Initialize(2, 1)
    IN  pure = [op |-> "table", table |-> init.table, size |-> init.size,
                fills |-> 0, reaps |-> 0]

\* The entries whose children are reaped in this view.
ReapedEntries == {2, 31}

\* fork in the parent: an entry is reserved and then filled with the
\* child's host pid and MINIX pid.
TableReserve ==
    /\ UNCHANGED <<procVars, sigVars, brkVars, execVars, logVars>>
    /\ pure.fills < MaxTableFills
    /\ LET r == MINIXCompat_Processes_NextFreeTableEntry(pure.table, pure.size)
           new_host_process == 100 + pure.fills
           new_minix_process == InitialNextPid + pure.fills
       IN  pure' = [op |-> "next_free",
                    table |-> ForkParentTable(r.table, r.entry, new_host_process,
                                              new_minix_process),
                    size |-> r.size, fills |-> pure.fills + 1,
                    reaps |-> pure.reaps,
                    pre_table |-> pure.table, pre_size |-> pure.size,
                    entry |-> r.entry, grown |-> r.table]

\* wait in the parent: the entry at index i, a child, is removed.
TableRemove(i) ==
    /\ UNCHANGED <<procVars, sigVars, brkVars, execVars, logVars>>
    /\ pure.reaps < MaxTableReaps
    /\ pure.table[i].host_pid # 0
    /\ pure' = [op |-> "table",
                table |-> MINIXCompat_Processes_RemoveMINIXProcess(
                              pure.table, pure.size, pure.table[i].minix_pid),
                size |-> pure.size, fills |-> pure.fills,
                reaps |-> pure.reaps + 1]

TableNext ==
    \/ TableReserve
    \/ \E i \in ReapedEntries : TableRemove(i)

\* ------------------------------------------------------------------------
\* Specifications.

RestInit == BrkInit(<<16, 0>>) /\ ExecInit /\ PureInit /\ LogInit("absent")

Init == ProcInit /\ SigInit({}) /\ RestInit

InitSignals ==
    /\ ProcInit
    /\ \E ignored \in SUBSET StartIgnorable : SigInit(ignored)
    /\ RestInit

InitBrk ==
    /\ ProcInit
    /\ SigInit({})
    /\ \E initial_break \in InitialBreaks : BrkInit(initial_break)
    /\ ExecInit
    /\ PureInit
    /\ LogInit("absent")

SpecBrk == InitBrk /\ [][BrkNext]_vars

SpecExec == Init /\ [][ExecNext]_vars

SpecPure == Init /\ [][PureNext]_vars

\* The guest, once it runs, calls brk and exec in any order.
BrkExecNext ==
    \/ ExecNext
    \/ (execution_state = "Running" /\ BrkNext)

SpecBrkExec == Init /\ [][BrkExecNext]_vars

InitTable ==
    /\ ProcInit
    /\ SigInit({})
    /\ BrkInit(<<16, 0>>)
    /\ ExecInit
    /\ TableInit
    /\ LogInit("absent")

SpecTable == InitTable /\ [][TableNext]_vars

InitLog ==
    /\ ProcInit
    /\ SigInit({})
    /\ BrkInit(<<16, 0>>)
    /\ ExecInit
    /\ PureInit
    /\ \E path \in LogPaths : LogInit(path)

\* A running process takes its steps: it is not stopped for ever.
SpecLog == InitLog /\ [][LogNext]_vars /\ WF_vars(LogStep)

SpecWait == Init /\ [][WaitNext]_vars

\* The initial process with one child (host pid 3) it had before it became
\* the emulator.
InitInherited == ProcStart({3}) /\ SigInit({}) /\ RestInit

SpecInherited == InitInherited /\ [][InheritedNext]_vars

Spec == Init /\ [][Next]_vars

SpecIds == Init /\ [][IdsNext]_vars

SpecKill == Init /\ [][KillNext]_vars

SpecSignal == InitSignals /\ [][SignalNext]_vars

SpecDrain == Init /\ [][DrainNext]_vars

SpecRace == Init /\ [][RaceNext]_vars

\* ------------------------------------------------------------------------
\* Claims about the process table.

LiveEntries(table, size) == {i \in 0..(size - 1) : table[i].host_pid # 0}

LiveChildEntries(table, size) == {i \in 2..(size - 1) : table[i].host_pid # 0}

\* C1: in every process of the fork tree, the table never holds two live
\* entries (host_pid # 0) with the same host_pid, nor two with the same
\* minix_pid.
C1_NoDuplicateLiveEntries ==
    \A p \in HostPids :
        Running(p) =>
            LET table == MINIXCompat_ProcessTable[p]
                live  == LiveEntries(table, MINIXCompat_ProcessTable_Size[p])
            IN  \A i, j \in live :
                    i # j => /\ table[i].host_pid # table[j].host_pid
                             /\ table[i].minix_pid # table[j].minix_pid

\* C2: after a successful fork that reserved entry k and MINIX pid m from the
\* table T the process had at the host fork: the parent's table is T except
\* entry k = (child's host pid, m) and the parent gets m; the child's table
\* is T except entry 0 = (its own host pid, m), entry 1 = T[0] and entry
\* k = T[1], and the child gets 0; every other entry and minix_next_pid are
\* the same in both.
C2_ForkTables ==
    (last.op = "fork") =>
        LET p == last.proc
            c == last.child
            T == last.T
            k == last.k
            m == last.m
            all == 0..(last.T_size - 1)
        IN  /\ k >= 2
            /\ T[k].host_pid = 0
            /\ m = last.pre_next
            /\ \A i \in DOMAIN last.pre : T[i] = last.pre[i]
            /\ MINIXCompat_ProcessTable_Size[p] = last.T_size
            /\ MINIXCompat_ProcessTable_Size[c] = last.T_size
            /\ MINIXCompat_ProcessTable[p] =
                   [i \in all |-> IF i = k THEN Entry(c, m) ELSE T[i]]
            /\ last.ret = m
            /\ MINIXCompat_ProcessTable[c] =
                   [i \in all |-> IF i = 0 THEN Entry(c, m)
                                  ELSE IF i = 1 THEN T[0]
                                  ELSE IF i = k THEN T[1]
                                  ELSE T[i]]
            /\ last.child_ret = 0
            /\ \A i \in all \ {0, 1, k} :
                   MINIXCompat_ProcessTable[p][i] = MINIXCompat_ProcessTable[c][i]
            /\ minix_next_pid[p] = minix_next_pid[c]

\* C2 witness: a fork made by a child of the initial process, whose entries
\* 0 and 1 are not those of the initial process.
C2_ForkByChild ==
    /\ last.op = "fork"
    /\ last.T[0].minix_pid = 8
    /\ last.T[1].minix_pid = ourselves
    /\ last.k = 3

\* C3: get_process_ids in any process returns that process's entry 0
\* minix_pid as pid and its entry 1 minix_pid as ppid: (7, 6) in the initial
\* process and, in a child, (the MINIX pid its parent's fork returned, the
\* parent's own MINIX pid), whether or not the parent had called
\* get_process_ids before it forked.
C3_GetProcessIDs ==
    (last.op = "getpids") =>
        LET table == MINIXCompat_ProcessTable[last.proc]
        IN  /\ last.pid = table[0].minix_pid
            /\ last.ppid = table[1].minix_pid
            /\ IsInitial(last.proc) => (last.pid = 7 /\ last.ppid = 6)

\* C4: within one process minix_next_pid starts at 8 after init (in a child:
\* one above its own MINIX pid), grows by exactly 1 with every successful
\* fork of that process and by nothing else; so the n-th successful fork of
\* the initial process returns 8 + (n - 1), whatever failed forks and waits
\* came between, and the parent then holds n live child entries if it has
\* reaped none.
C4_NextPid ==
    /\ \A p \in HostPids :
           Running(p) =>
               minix_next_pid[p] =
                   (IF IsInitial(p) THEN 8
                    ELSE MINIXCompat_ProcessTable[p][0].minix_pid + 1) + forks_ok[p]
    /\ (last.op = "fork" /\ IsInitial(last.proc)) =>
           /\ last.ret = 8 + (forks_ok[last.proc] - 1)
           /\ (waits_ok[last.proc] = 0) =>
                  Cardinality(LiveChildEntries(
                      MINIXCompat_ProcessTable[last.proc],
                      MINIXCompat_ProcessTable_Size[last.proc])) = forks_ok[last.proc]

\* C4 witness: the third successful fork of the initial process returns 10,
\* after it has reaped a child.
C4_ThirdFork ==
    /\ last.op = "fork"
    /\ IsInitial(last.proc)
    /\ forks_ok[last.proc] = 3
    /\ waits_ok[last.proc] >= 1
    /\ last.ret = 10

\* C5: when the host fork fails, fork returns the negated MINIX number of the
\* host error, no process is created, minix_next_pid is what it was before
\* the call, every live entry is as before, and the reserved entry is still
\* free, so that the next fork takes the same entry and the same MINIX pid.
C5_ForkFailure ==
    (last.op = "fork_failed") =>
        LET p == last.proc
            table == MINIXCompat_ProcessTable[p]
            size == MINIXCompat_ProcessTable_Size[p]
        IN  /\ last.ret < 0
            /\ last.ret = (IF last.host_errno = "EAGAIN" THEN -11 ELSE -12)
            /\ {h \in HostPids : hostState[h] # "free"} = last.pre_procs
            /\ minix_next_pid[p] = last.pre_next
            /\ \A i \in LiveEntries(last.pre, last.pre_size) : table[i] = last.pre[i]
            /\ LiveEntries(table, size) = LiveEntries(last.pre, last.pre_size)
            /\ table[last.k].host_pid = 0
            /\ MINIXCompat_Processes_NextFreeTableEntry(table, size).entry = last.k
            /\ minix_next_pid[p] = last.m

\* C5 witness: a fork fails in a process that has forked before.
C5_FailureAfterFork ==
    /\ last.op = "fork_failed"
    /\ forks_ok[last.proc] >= 1
    /\ last.k = 3

\* C6: when the host wait reaps or reports a child, wait returns the MINIX
\* pid that the fork creating that child returned to this process and writes
\* the encoded status; for a child that exited or was killed the table
\* afterwards holds neither that minix_pid nor that host_pid and differs
\* from the table before in that one entry only; for a child that was only
\* stopped the table is as before.
C6_WaitReturnsChildPid ==
    (last.op = "wait") =>
        LET p == last.proc
            table == MINIXCompat_ProcessTable[p]
            all == 0..(MINIXCompat_ProcessTable_Size[p] - 1)
            ended == last.host_stat.kind \in {"exited", "signaled"}
        IN  /\ last.ret = last.child_minix
            /\ last.stat_loc =
                   (IF last.host_stat.kind = "stopped"
                    THEN 127 * 256 + last.host_stat.val
                    ELSE last.host_stat.val)
            /\ ended =>
                   /\ \A i \in all : /\ table[i].minix_pid # last.ret
                                     /\ table[i].host_pid # last.host_pid
                   /\ Cardinality({i \in all : table[i] # last.pre[i]}) = 1
            /\ ~ended => table = last.pre

\* The host signal each MINIX signal 1..16 stands for (UNUSED is carried by
\* XFSZ and STKFLT by XCPU).
ExpectedHostSignal(minix_signal) ==
    << "SIGHUP", "SIGINT", "SIGQUIT", "SIGILL", "SIGTRAP", "SIGABRT",
       "SIGXFSZ", "SIGFPE", "SIGKILL", "SIGUSR1", "SIGSEGV", "SIGUSR2",
       "SIGPIPE", "SIGALRM", "SIGTERM", "SIGXCPU" >>[minix_signal]

\* C10: kill(pid, s) with pid > 0 and s in 1..16 returns -ESRCH and issues no
\* host kill when pid has no live entry in the caller's table; otherwise it
\* issues exactly one host kill, to the host pid of that entry with the host
\* signal of s, and returns 0 when the host kill succeeds and the negated
\* MINIX number of the host error when it fails.  The table is unchanged.
C10_Kill ==
    (last.op = "kill") =>
        LET p == last.proc
            pre == last.pre
            live == {i \in 0..(MINIXCompat_ProcessTable_Size[p] - 1) :
                        pre[i].minix_pid = last.pid /\ pre[i].host_pid # 0}
        IN  /\ MINIXCompat_ProcessTable[p] = pre
            /\ (live = {}) => (last.ret = -3 /\ last.host_kills = <<>>)
            /\ (live # {}) =>
                   /\ Len(last.host_kills) = 1
                   /\ \E i \in live :
                          last.host_kills[1] =
                              <<pre[i].host_pid, ExpectedHostSignal(last.sig)>>
                   /\ last.ret = (IF last.host_errno = "none" THEN 0 ELSE -1)

\* C10 witness: the initial process kills the MINIX pid of a child it has
\* already reaped, and gets -ESRCH.
C10_KillReaped ==
    /\ last.op = "kill"
    /\ IsInitial(last.proc)
    /\ forks_ok[last.proc] = 1
    /\ waits_ok[last.proc] = 1
    /\ last.pid = 8
    /\ last.ret = -3

\* ------------------------------------------------------------------
\* Claims about signals.

Sentinels == {minix_SIG_DFL, minix_SIG_IGN, minix_SIG_ERR}

RECURSIVE StackBytes(_)
StackBytes(stack) ==
    IF stack = <<>> THEN 0
    ELSE (Head(stack).bits \div 8) + StackBytes(Tail(stack))

\* C7: when the drain consumes a pending signal s whose handler table entry
\* is a guest address h, it pushes the PC of that moment (32 bits), the SR
\* (16 bits) and s (16 bits), in this order and 8 bytes in all, and sets PC
\* to h, with SR unchanged; when the entry is SIG_IGN, SIG_DFL or SIG_ERR
\* the flag is consumed and PC, SR and the stack are as before.
C7_HandlePendingSignal ==
    (siglast.op = "consume") =>
        LET s == siglast.sig
            h == minix_signal_handlers[s]
            pre == siglast.pre
        IN  /\ ~MINIXCompat_Processes_PendingSignals[s]
            /\ (h \notin Sentinels) =>
                   /\ cpu.stack = pre.stack \o << [bits |-> 32, val |-> pre.pc],
                                                  [bits |-> 16, val |-> pre.sr],
                                                  [bits |-> 16, val |-> s] >>
                   /\ StackBytes(cpu.stack) = StackBytes(pre.stack) + 8
                   /\ cpu.pc = h
                   /\ cpu.sr = pre.sr
            /\ (h \in Sentinels) => cpu = pre

\* C7 witness: in one drain SIGTERM is consumed after SIGINT, both with
\* guest handlers, so the PC pushed for SIGTERM is the handler of SIGINT.
C7_SecondFrame ==
    /\ siglast.op = "consume"
    /\ siglast.sig = minix_SIGTERM
    /\ minix_signal_handlers[minix_SIGTERM] = <<1, 256>>
    /\ siglast.pre.pc = <<1, 0>>
    /\ Len(cpu.stack) = 6

\* C8: when MINIXCompat_Processes_HandlePendingSignals returns and no
\* trampoline ran between its entry and its return, the aggregate flag and
\* the flag of every MINIX signal 1..16 are false; when nothing was pending
\* at entry the call changed no state.
C8_DrainClears ==
    (siglast.op = "drain") =>
        /\ ~siglast.tramp =>
               /\ ~MINIXCompat_Processes_HasPendingSignal
               /\ \A s \in MinixSignals : ~MINIXCompat_Processes_PendingSignals[s]
        /\ ~siglast.was_pending =>
               <<minix_signal_handlers, MINIXCompat_Processes_HasPendingSignal,
                 MINIXCompat_Processes_PendingSignals, host_handlers, cpu>>
                   = siglast.pre

\* C8 witness: a drain that consumed two signals returns, no trampoline
\* having run meanwhile.
C8_DrainOfTwo ==
    /\ siglast.op = "drain"
    /\ siglast.was_pending
    /\ ~siglast.tramp
    /\ Len(cpu.stack) = 6
    /\ cpu.pc = <<1, 256>>

\* signal() as to the table: the entry of the signal is the handler passed
\* and every other entry is as before.
SignalSetsEntry ==
    /\ minix_signal_handlers[siglast.sig] = siglast.handler
    /\ \A t \in (0..16) \ {siglast.sig} :
           minix_signal_handlers[t] = siglast.pre[t]

\* C9 as claimed: for every MINIX signal s in 1..16, SIGKILL included,
\* signal(s, h) sets the table entry of s to h, leaves every other entry,
\* and returns the handler passed by the most recent earlier signal(s, .),
\* or SIG_DFL if there was none and the host disposition was the default.
C9_SignalReturnsOld ==
    (siglast.op = "signal") =>
        /\ SignalSetsEntry
        /\ (siglast.earlier # NoHandler) => siglast.ret = siglast.earlier
        /\ (/\ siglast.earlier = NoHandler
            /\ MINIXCompat_Processes_HostSignalForMINIXSignal(siglast.sig)
                   \notin sighist.ignored)
               => siglast.ret = minix_SIG_DFL

\* C9 amended: signal(s, h) sets the table entry of s to h and leaves every
\* other entry, for every s in 1..16; for SIGKILL it returns SIG_ERR; for
\* any other s, if SIG_ERR has not been passed as the handler for s in this
\* or an earlier call, it returns the handler passed by the most recent
\* earlier signal(s, .), or SIG_DFL if there was none and the host
\* disposition was the default.
C9_SignalAmended ==
    (siglast.op = "signal") =>
        /\ SignalSetsEntry
        /\ (siglast.sig = minix_SIGKILL) => siglast.ret = minix_SIG_ERR
        /\ (siglast.sig # minix_SIGKILL /\ ~siglast.err) =>
               /\ (siglast.earlier # NoHandler) => siglast.ret = siglast.earlier
               /\ (/\ siglast.earlier = NoHandler
                   /\ MINIXCompat_Processes_HostSignalForMINIXSignal(siglast.sig)
                          \notin sighist.ignored)
                      => siglast.ret = minix_SIG_DFL

\* C9 witness: a second signal() for SIGINT returns the guest handler the
\* first one installed, a handler for SIGKILL having been passed between.
C9_SecondCall ==
    /\ siglast.op = "signal"
    /\ siglast.sig = minix_SIGINT
    /\ siglast.earlier = <<1, 0>>
    /\ siglast.handler = minix_SIG_IGN
    /\ siglast.ret = <<1, 0>>
    /\ siglast.pre[minix_SIGKILL] = <<1, 256>>


\* ------------------------------------------------------------------------
\* Claims about the break.

\* The break the next brk call starts from: the static, or the executable's
\* initial break while the static is still 0.
CurrentBreak(current_break) ==
    IF current_break = <<0, 0>> THEN executable_initial_break ELSE current_break

\* C11: brk(req) is accepted exactly when initial_break <= req < 0x00FE0000,
\* whatever the break was before: accepted, it returns 0, writes req to the
\* result location and the current break is req; rejected, it returns
\* -ENOMEM (-12), writes 0xFFFFFFFF and the current break is what it was.
C11_Brk ==
    brklast.op = "brk" =>
        LET req == brklast.req
            lo  == executable_initial_break
            in_range ==
                /\ lo[1] < req[1] \/ (lo[1] = req[1] /\ lo[2] <= req[2])
                /\ req[1] < 254
        IN  IF in_range
            THEN /\ brklast.result = 0
                 /\ brklast.out = req
                 /\ CurrentBreak(minix_current_break) = req
            ELSE /\ brklast.result = -12
                 /\ brklast.out = <<65535, 65535>>
                 /\ CurrentBreak(minix_current_break) = CurrentBreak(brklast.pre)

\* C11 witness: a request equal to the limit rejected after an accepted one
\* had moved the break.
C11_LimitRejected ==
    /\ brklast.op = "brk"
    /\ brklast.req = <<254, 0>>
    /\ brklast.result = -12
    /\ brklast.pre = <<32, 4096>>
    /\ minix_current_break = <<32, 4096>>

\* ------------------------------------------------------------------------
\* Claims about exec.

IsClear(c) == c.call = "MINIXCompat_RAM_Clear"

IsReady(c) == c.call = "MINIXCompat_Execution_ChangeState"

IsCopyAt(c, addr) == c.call = "MINIXCompat_RAM_Copy_Block_From_Host" /\ c.addr = addr

IsCopyToStack(c) ==
    c.call = "MINIXCompat_RAM_Copy_Block_From_Host" /\ c.addr >= 16646144

ToolLoads(tool) == tool.stat_errno = "none" /\ tool.opens /\ tool.load_err = 0

\* C12: a successful exec with a stack block clears the RAM, then copies
\* the image to the executable base, then copies the stack block to the
\* stack base, then changes the execution state to Ready, nothing skipped;
\* a successful exec from host parameters copies the image first, then the
\* argument blocks at the stack base, then changes the state to Ready, and
\* never clears the RAM.
C12_ExecOrder ==
    LET calls == execlast.calls
        n == Len(calls)
    IN  /\ (execlast.op = "exec_stack" /\ execlast.result = 0) =>
               /\ n = 4
               /\ IsClear(calls[1])
               /\ IsCopyAt(calls[2], 4096) /\ calls[2].bytes = execlast.tool.image
               /\ IsCopyAt(calls[3], 16646144)
               /\ Len(calls[3].bytes) = Len(execlast.input.block)
               /\ IsReady(calls[4])
               /\ execution_state \in {"Ready", "Running"}
               /\ \A a \in DOMAIN ram : a >= 16646144 \/ a \in 4096..4099
        /\ (execlast.op = "exec_host" /\ execlast.result = 0) =>
               /\ n >= 3
               /\ IsCopyAt(calls[1], 4096) /\ calls[1].bytes = execlast.tool.image
               /\ \A i \in 2..(n - 1) : IsCopyToStack(calls[i])
               /\ IsCopyAt(calls[2], 16646144)
               /\ IsReady(calls[n])
               /\ \A i \in 1..n : ~IsClear(calls[i])
               /\ execution_state \in {"Ready", "Running"}

\* C12 witness: a successful exec with a stack block in an emulator whose
\* RAM held the argument blocks of the exec from host parameters.
C12_StackAfterHost ==
    /\ execlast.op = "exec_stack"
    /\ execlast.result = 0
    /\ execution_state = "Ready"
    /\ \E a \in DOMAIN execlast.pre_ram : a > 16646200
    /\ \A a \in DOMAIN ram : a < 16646200

\* C13: when the path does not exist, the file cannot be opened or the
\* loader reports an error, exec (either form) returns that nonzero error,
\* leaves the execution state as it was and copies nothing to the stack
\* base; the state changes to Ready only in a call that returns 0.
C13_ExecFailure ==
    execlast.op \in {"exec_stack", "exec_host"} =>
        LET calls == execlast.calls
            tool == execlast.tool
        IN  /\ ~ToolLoads(tool) =>
                   /\ execlast.result # 0
                   /\ execlast.result =
                          (IF tool.stat_errno = "ENOENT" THEN -2
                           ELSE IF ~tool.opens THEN -5 ELSE tool.load_err)
                   /\ execution_state = execlast.pre_state
                   /\ execution_state # "Ready"
                   /\ \A i \in 1..Len(calls) :
                          ~IsCopyToStack(calls[i]) /\ ~IsReady(calls[i])
                   /\ \A a \in DOMAIN ram :
                          a >= 16646144 => /\ a \in DOMAIN execlast.pre_ram
                                           /\ ram[a] = execlast.pre_ram[a]
            /\ (\E i \in 1..Len(calls) : IsReady(calls[i])) => execlast.result = 0
            /\ execution_state = "Ready" => execlast.result = 0

\* C13 witness: the loader rejects the file of an exec with a stack block
\* made by a running guest.
C13_LoaderRejects ==
    /\ execlast.op = "exec_stack"
    /\ execlast.tool.stat_errno = "none"
    /\ execlast.tool.opens
    /\ execlast.result = -8
    /\ execution_state = "Running"

\* ------------------------------------------------------------------------
\* Claims about wait.

\* C14: wait never returns -EINTR (-4) to the guest.  A process whose host
\* wait failed with EINTR is still inside the call, with its table as it
\* was, and makes another host wait; the call returns on the first host
\* result that is not EINTR, a failure giving the negated MINIX errno
\* (ECHILD: -10) with the table unchanged.
C14_WaitRetriesEINTR ==
    /\ last.op \in {"wait", "wait_failed"} =>
           /\ last.ret # -4
           /\ Running(last.proc) => wait_eintr[last.proc] = 0
    /\ last.op = "wait_failed" =>
           /\ last.ret = -10
           /\ Running(last.proc) => MINIXCompat_ProcessTable[last.proc] = last.pre
    /\ last.op = "wait_eintr" =>
           /\ last.eintr >= 1
           /\ wait_eintr[last.proc] = last.eintr
           /\ Running(last.proc)
           /\ MINIXCompat_ProcessTable[last.proc] = last.pre
    /\ last.op = "fork" => wait_eintr[last.proc] = 0
    /\ \A p \in HostPids :
           wait_eintr[p] > 0 => Running(p) /\ HostChildren(p) # {}

\* C14 witness: a wait returns a child's pid after two host waits of the
\* call failed with EINTR.
C14_ReturnsAfterTwoEINTR ==
    /\ last.op = "wait"
    /\ last.eintr = 2
    /\ last.ret > 0

\* C15: when the host wait succeeds with a host pid that has no entry in
\* the caller's table, wait returns -ESRCH (-3).
C15_WaitMissReturnsESRCH ==
    (/\ last.op \in {"wait", "wait_abort"}
     /\ \A i \in 0..(last.pre_size - 1) : last.pre[i].host_pid # last.host_pid)
        => (last.op = "wait" /\ last.ret = -3)

\* ------------------------------------------------------------------------
\* Claims about the argument region.  The region is read back from the
\* emulated RAM as the guest reads it.

MemWord(a) ==
    ((RAMByte(ram, a) * 256 + RAMByte(ram, a + 1)) * 256 + RAMByte(ram, a + 2)) * 256
        + RAMByte(ram, a + 3)

\* The NUL-terminated string at address a (at most n characters of it).
RECURSIVE MemString(_, _)
MemString(a, n) ==
    IF n = 0 \/ RAMByte(ram, a) = 0 THEN <<>>
    ELSE <<RAMByte(ram, a)>> \o MemString(a + 1, n - 1)

\* The pointers from address a up to the first NULL (at most n of them).
RECURSIVE MemPointers(_, _)
MemPointers(a, n) ==
    IF n = 0 \/ MemWord(a) = 0 THEN <<>>
    ELSE <<MemWord(a)>> \o MemPointers(a + 4, n - 1)

\* The entries of envp that begin with the six characters MINIX_.
PrefixedIndexes(envp) ==
    {i \in 1..Len(envp) :
        /\ Len(envp[i]) >= 6
        /\ \A k \in 1..6 : envp[i][k] = <<77, 73, 78, 73, 88, 95>>[k]}

\* The arguments forwarded to the guest: those after argv[0], which names
\* the emulator itself.
ForwardedArgv == Tail(execlast.input.argv)

\* C16: after a successful exec from host parameters, with argc the number
\* of arguments forwarded to the guest and envc the number of environment
\* entries forwarded, the memory at the stack base holds argc as a
\* big-endian 32-bit word, argc non-null argv pointers, a NULL, envc
\* non-null envp pointers, a NULL; every non-null pointer lies between
\* stack base + 4*(argc+envc+3) and the end of the region and is the
\* address where the NUL-terminated copy of its string starts.
C16_ArgumentRegion ==
    (execlast.op = "exec_host" /\ execlast.result = 0) =>
        LET base == 16646144
            argv == ForwardedArgv
            envp == execlast.input.envp
            argc == Len(argv)
            envc == Cardinality(PrefixedIndexes(envp))
            content == execlast.calls[3]
            region_end == content.addr - base + Len(content.bytes)
            argv_at(i) == MemWord(base + 4 * i)
            envp_at(j) == MemWord(base + 4 * (argc + 1 + j))
            within(q) == base + 4 * (argc + envc + 3) <= q /\ q < base + region_end
            holds(q, str) ==
                /\ \A k \in 1..Len(str) : RAMByte(ram, q + k - 1) = str[k]
                /\ RAMByte(ram, q + Len(str)) = 0
                /\ q + Len(str) < base + region_end
        IN  /\ MemWord(base) = argc
            /\ RAMByte(ram, base + 3) = argc
            /\ \A i \in 1..argc :
                   argv_at(i) # 0 /\ within(argv_at(i)) /\ holds(argv_at(i), argv[i])
            /\ MemWord(base + 4 * (argc + 1)) = 0
            /\ \A j \in 1..envc : envp_at(j) # 0 /\ within(envp_at(j))
            /\ \A j \in 1..envc :
                   \E i \in PrefixedIndexes(envp) :
                       /\ Cardinality({h \in PrefixedIndexes(envp) : h <= i}) = j
                       /\ holds(envp_at(j), SubSeq(envp[i], 7, Len(envp[i])))
            /\ MemWord(base + 4 * (argc + envc + 2)) = 0
            /\ content.addr = base + 4 * (argc + envc + 3)

\* C16 witness: the region of an exec with three forwarded arguments, one
\* of them empty, and two of four environment entries forwarded.
C16_ThreeArgsTwoEnv ==
    /\ execlast.op = "exec_host"
    /\ execlast.result = 0
    /\ MemWord(16646144) = 3
    /\ Len(MemPointers(16646144 + 20, 8)) = 2
    /\ Len(execlast.input.envp) = 4

SixteenHostSignals ==
    {"SIGHUP", "SIGINT", "SIGQUIT", "SIGILL", "SIGTRAP", "SIGABRT", "SIGXFSZ",
     "SIGFPE", "SIGKILL", "SIGUSR1", "SIGSEGV", "SIGUSR2", "SIGPIPE", "SIGALRM",
     "SIGTERM", "SIGXCPU"}

\* C18: every MINIX signal s in 1..16 maps to a host signal (never to 0)
\* that maps back to s, so the sixteen map to sixteen distinct host signals,
\* UNUSED (7) to SIGXFSZ and STKFLT (16) to SIGXCPU; the inverse map gives
\* 0 for every other host signal.
C18_SignalMapBijection ==
    /\ pure.op = "map" =>
           /\ pure.minix_signal \in 1..16
           /\ pure.host_signal \in SixteenHostSignals
           /\ pure.back = pure.minix_signal
           /\ pure.minix_signal = 7 => pure.host_signal = "SIGXFSZ"
           /\ pure.minix_signal = 16 => pure.host_signal = "SIGXCPU"
           /\ \A t \in 1..16 :
                  t # pure.minix_signal =>
                      MINIXCompat_Processes_HostSignalForMINIXSignal(t)
                          # pure.host_signal
    /\ pure.op = "unmap" =>
           /\ pure.host_signal \notin SixteenHostSignals => pure.minix_signal = 0
           /\ pure.host_signal \in SixteenHostSignals => pure.minix_signal \in 1..16

\* C18 witness: STKFLT mapped to SIGXCPU and back.
C18_StkfltAndBack ==
    /\ pure.op = "map"
    /\ pure.minix_signal = 16
    /\ pure.host_signal = "SIGXCPU"
    /\ pure.back = 16

\* C19: a host status "exited with code c", c in 0..255, encodes to
\* exitstat = c and sigstat = 0, which reads back as exited with status c;
\* a host status "stopped by signal g" encodes to sigstat = 0x7F (127) and
\* exitstat = g, which the exited predicate rejects.
C19_WaitStatRoundTrip ==
    pure.op = "encode" =>
        /\ pure.host_stat.kind = "exited" =>
               /\ pure.host_stat.val \in 0..255
               /\ pure.minix_stat.exitstat = pure.host_stat.val
               /\ pure.minix_stat.sigstat = 0
               /\ pure.wifexited
               /\ pure.wexitstatus = pure.host_stat.val
               /\ pure.read_as = [kind |-> "exited", val |-> pure.host_stat.val]
        /\ pure.host_stat.kind = "stopped" =>
               /\ pure.minix_stat.sigstat = 127
               /\ pure.minix_stat.exitstat = pure.host_stat.val
               /\ ~pure.wifexited
               /\ pure.read_as.kind # "exited"

\* C19 witness: exit code 255 encoded and read back.
C19_ExitCode255 ==
    /\ pure.op = "encode"
    /\ pure.host_stat = [kind |-> "exited", val |-> 255]
    /\ pure.read_as = [kind |-> "exited", val |-> 255]

\* ------------------------------------------------------------------------
\* Claims about logging.

\* C20: opening the log file, at initialization and in a fork child,
\* always ends, with the file open or, after a failed open, at the fatal
\* assertion; a failed open is not retried for ever and the log is never
\* written through an invalid descriptor.
C20_LogOpenEnds ==
    /\ [](log_pc = "logging" => MINIXCompat_Log_File # -1)
    /\ [](log_pc = "aborted" => MINIXCompat_Log_File = -1)
    /\ (log_pc = "open") ~> (log_pc \in {"logging", "aborted"})

\* ------------------------------------------------------------------------
\* Claims about signals arriving during a drain.

C22_UniqueSelfPids ==
    \A p \in HostPids : \A q \in HostPids :
        (p # q /\ Running(p) /\ Running(q)) =>
            MINIXCompat_ProcessTable[p][0].minix_pid #
                MINIXCompat_ProcessTable[q][0].minix_pid

\* ------------------------------------------------------------------------
\* Claims about one drain as a whole.

IsGuestConsumed(c) == c.handler \notin Sentinels

\* The signals the drain in progress has consumed that had a guest handler.
GuestConsumed == SelectSeq(drain.consumed, IsGuestConsumed)

\* C23: within one drain the pending signals are consumed in ascending
\* order of their numbers, each once; every consumed signal with a guest
\* handler gets one frame of 8 bytes; the first frame saves the PC the
\* drain was entered with, each later frame the handler of the signal
\* injected before it; PC is then the handler of the last such signal and
\* SR is as at entry.
C23_DrainOrder ==
    (drain.pos # 0) =>
        LET consumed == drain.consumed
            entry == drain.entry.cpu
            base == Len(entry.stack)
            G == GuestConsumed
        IN  /\ \A i \in 1..Len(consumed) : \A j \in 1..Len(consumed) :
                   i < j => consumed[i].sig < consumed[j].sig
            /\ \A i \in 1..Len(consumed) : consumed[i].sig < drain.pos
            /\ \A s \in MinixSignals :
                   (drain.entry.pending[s] /\ s < drain.pos) =>
                       \E i \in 1..Len(consumed) : consumed[i].sig = s
            /\ Len(cpu.stack) = base + 3 * Len(G)
            /\ StackBytes(cpu.stack) = StackBytes(entry.stack) + 8 * Len(G)
            /\ SubSeq(cpu.stack, 1, base) = entry.stack
            /\ \A i \in 1..Len(G) :
                   SubSeq(cpu.stack, base + 3 * i - 2, base + 3 * i) =
                       << [bits |-> 32,
                           val |-> IF i = 1 THEN entry.pc ELSE G[i - 1].handler],
                          [bits |-> 16, val |-> entry.sr],
                          [bits |-> 16, val |-> G[i].sig] >>
            /\ cpu.pc = IF G = <<>> THEN entry.pc ELSE G[Len(G)].handler
            /\ cpu.sr = entry.sr

\* C23 witness: a drain entered at GuestPoint has finished its loop having
\* injected a frame for SIGINT and then one for SIGTERM.
C23_TwoFramesInOrder ==
    /\ drain.pos = minix_SIGSTKFLT + 1
    /\ drain.entry.cpu.pc = GuestPoint.pc
    /\ Len(GuestConsumed) = 2
    /\ GuestConsumed[1].sig = minix_SIGINT
    /\ GuestConsumed[2].sig = minix_SIGTERM

\* ------------------------------------------------------------------------
\* Claims about the trampolines.

\* C24: a trampoline run for host signal g, which maps to MINIX signal s,
\* sets the flag of s and the aggregate flag, whatever they were, and leaves
\* every other flag, the process table, the handler table, the host
\* dispositions, the CPU and RAM as they were, and moves no drain; for a
\* host signal that maps to no MINIX signal the registration, made in the
\* same state, changes nothing.
C24_TrampolineFrame ==
    [][(/\ siglast'.op = "trampoline"
        /\ MINIXCompat_Processes_SignalHandler(siglast'.host_signal)) =>
           LET g == siglast'.host_signal
               s == MINIXCompat_Processes_MINIXSignalForHostSignal(g)
           IN  /\ s \in MinixSignals
               /\ MINIXCompat_Processes_HasPendingSignal'
               /\ MINIXCompat_Processes_PendingSignals'[s]
               /\ \A t \in (0..16) \ {s} :
                      MINIXCompat_Processes_PendingSignals'[t] =
                          MINIXCompat_Processes_PendingSignals[t]
               /\ UNCHANGED <<procVars, restVars, minix_signal_handlers,
                              host_handlers, cpu>>
               /\ sighist' = [sighist EXCEPT !.arrival = sighist'.arrival]
               /\ drain' = [drain EXCEPT !.tramp = drain'.tramp]
               /\ \A u \in HostSignals \ MappedHostSignals :
                      /\ MINIXCompat_Processes_MINIXSignalForHostSignal(u) = 0
                      /\ MINIXCompat_Processes_RegisterPendingSignal(
                             MINIXCompat_Processes_HasPendingSignal,
                             MINIXCompat_Processes_PendingSignals, u) =
                         [has_pending |-> MINIXCompat_Processes_HasPendingSignal,
                          pending |-> MINIXCompat_Processes_PendingSignals]]_vars

\* C24 witness: SIGINT has arrived again while its flag was still set from
\* an earlier arrival, inside a drain that has passed it, and frames are
\* on the stack.
C24_ArrivalDuringDrain ==
    /\ siglast.op = "trampoline"
    /\ siglast.host_signal = "SIGINT"
    /\ drain.tramp
    /\ drain.pos > minix_SIGTERM
    /\ drain.entry.pending[minix_SIGINT]
    /\ cpu.stack # <<>>
    /\ MINIXCompat_Processes_PendingSignals[minix_SIGINT]
    /\ MINIXCompat_Processes_HasPendingSignal

\* ------------------------------------------------------------------------
\* Claims about the handler a drain acts on.

\* C25: what a drain does for a signal is decided by the handler table
\* entry at the drain, not at the arrival: a frame is injected exactly when
\* a set flag is consumed and the entry is then a guest address, and PC
\* becomes that address, whatever the entry was when the signal arrived.
C25_HandlerAtDrain ==
    /\ []((siglast.op = "consume") =>
              LET s == siglast.sig
                  pre == siglast.pre
              IN  /\ minix_signal_handlers[s] = siglast.handler
                  /\ (siglast.handler \notin Sentinels) =>
                         /\ Len(cpu.stack) = Len(pre.stack) + 3
                         /\ cpu.stack[Len(cpu.stack)] = [bits |-> 16, val |-> s]
                         /\ cpu.pc = siglast.handler
                  /\ (siglast.handler \in Sentinels) => cpu = pre)
    /\ [][(cpu'.stack # cpu.stack) =>
              /\ drain.pos \in MinixSignals
              /\ MINIXCompat_Processes_PendingSignals[drain.pos]
              /\ ~MINIXCompat_Processes_PendingSignals'[drain.pos]
              /\ minix_signal_handlers[drain.pos] \notin Sentinels
              /\ siglast'.op = "consume"
              /\ siglast'.sig = drain.pos]_vars

\* C25 witness: SIGINT arrived while its entry was SIG_DFL, signal() then
\* installed a guest handler, and the drain injected a frame for it.
C25_RecordedUnderDefault ==
    /\ siglast.op = "consume"
    /\ siglast.sig = minix_SIGINT
    /\ siglast.arrival = minix_SIG_DFL
    /\ siglast.handler = <<1, 0>>
    /\ cpu.pc = <<1, 0>>

\* ------------------------------------------------------------------------
\* Claims about a failed exec and about the break across exec.

\* C26: an exec with a stack block that fails leaves emulated RAM as it was
\* before the call.
C26_FailedExecKeepsRAM ==
    (execlast.op = "exec_stack" /\ execlast.result # 0) => ram = execlast.pre_ram

\* C27: once brk has been called, after any sequence of brk and exec calls
\* the current break is at or above the initial break of the executable
\* now loaded and below the limit.
C27_BreakWithinExecutable ==
    (brklast.op = "brk") =>
        /\ ~Addr32Less(minix_current_break, executable_initial_break)
        /\ Addr32Less(minix_current_break, MINIXCompat_Executable_Limit)

\* ------------------------------------------------------------------------
\* Claims about the growth of the process table.

\* C28: MINIXCompat_Processes_NextFreeTableEntry returns the index, 2 or
\* more, of a free entry, the lowest free one when there is one; when the
\* entries from 2 on are all live the table grows from n to n + n/2 entries
\* (rounded down), every old entry stays at its index, the new entries are
\* free and n is returned; the lookups of the live entries give after the
\* growth what they gave before.
C28_NextFree ==
    (pure.op = "next_free") =>
        LET T == pure.pre_table
            n == pure.pre_size
            G == pure.grown
            m == pure.size
            e == pure.entry
            free == {i \in 2..(n - 1) : T[i].host_pid = 0}
        IN  /\ e >= 2
            /\ e < m
            /\ DOMAIN G = 0..(m - 1)
            /\ G[e].host_pid = 0
            /\ free # {} =>
                   /\ e \in free
                   /\ \A i \in free : e <= i
                   /\ G = T
                   /\ m = n
            /\ free = {} =>
                   /\ m = n + (n \div 2)
                   /\ e = n
                   /\ \A i \in 0..(n - 1) : G[i] = T[i]
                   /\ \A i \in n..(m - 1) : G[i] = FreeEntry
            /\ \A i \in 0..(n - 1) :
                   T[i].host_pid # 0 =>
                       /\ MINIXCompat_Processes_MINIXProcessForHostProcess(
                              G, m, T[i].host_pid) =
                          MINIXCompat_Processes_MINIXProcessForHostProcess(
                              T, n, T[i].host_pid)
                       /\ MINIXCompat_Processes_HostProcessForMINIXProcess(
                              G, m, T[i].minix_pid) =
                          MINIXCompat_Processes_HostProcessForMINIXProcess(
                              T, n, T[i].minix_pid)

\* C28 witness: the table, grown once before, is full again with 48 entries
\* and grows to 72; entry 48 is returned.
C28_SecondGrowth ==
    /\ pure.op = "next_free"
    /\ pure.pre_size = 48
    /\ pure.size = 72
    /\ pure.entry = 48

\* ------------------------------------------------------------------------
\* Claims about the stack block of exec.

\* The index of the first zero word of a block at or after word i.
ZeroWordFrom(block, i) ==
    First({k \in i..((Len(block) \div 4) - 1) : ntohl(WordAt(block, k)) = 0})

\* C29: after a successful exec with a stack block (argc, argv offsets, a
\* zero word, envp offsets, a zero word, the strings), the memory at the
\* stack base holds the same argc, every argv and envp offset plus the
\* stack base, zero in both terminators and the bytes after the second
\* terminator as they were; as many bytes as the block has are copied.
C29_Relocation ==
    (execlast.op = "exec_stack" /\ execlast.result = 0) =>
        LET block == execlast.input.block
            base == MINIXCompat_Stack_Base
            argv_end == ZeroWordFrom(block, 1)
            envp_end == ZeroWordFrom(block, argv_end + 1)
            pointers == (1..(argv_end - 1)) \cup ((argv_end + 1)..(envp_end - 1))
            copy == execlast.calls[3]
        IN  /\ MemWord(base) = ntohl(WordAt(block, 0))
            /\ \A i \in pointers :
                   MemWord(base + 4 * i) = ntohl(WordAt(block, i)) + base
            /\ MemWord(base + 4 * argv_end) = 0
            /\ MemWord(base + 4 * envp_end) = 0
            /\ \A k \in (4 * envp_end + 5)..Len(block) :
                   RAMByte(ram, base + k - 1) = block[k]
            /\ IsCopyAt(copy, base)
            /\ Len(copy.bytes) = Len(block)
            /\ \A a \in DOMAIN ram : a >= base => a < base + Len(block)

\* C29 witness: a block with two arguments and one environment string has
\* been relocated and stored.
C29_TwoArgsOneEnv ==
    /\ execlast.op = "exec_stack"
    /\ execlast.result = 0
    /\ ntohl(WordAt(execlast.input.block, 0)) = 2
    /\ MemWord(MINIXCompat_Stack_Base + 4) = MINIXCompat_Stack_Base + 24
    /\ MemWord(MINIXCompat_Stack_Base + 16) = MINIXCompat_Stack_Base + 32
    /\ MemString(MINIXCompat_Stack_Base + 32, 8) = <<65, 61, 98>>

\* C30: in the marshalled argument region every string starts at a
\* 4-byte-aligned content offset; a string of length L (prefix stripped,
\* NUL excluded) advances the content offset by the smallest multiple of 4
\* that is at least L + 1, also when L + 1 is itself a multiple of 4; the
\* content block size is the sum of these advances and no two strings
\* overlap.
C30_ContentAdvance ==
    (execlast.op = "exec_host" /\ execlast.result = 0) =>
        LET base == 16646144
            argv_seen == MemPointers(base + 4, 8)
            envp_seen == MemPointers(base + 4 * (Len(argv_seen) + 2), 8)
            seen == argv_seen \o envp_seen
            content == execlast.calls[3]
            length(i) == Len(MemString(seen[i], 32))
            advance(i) == ((length(i) + 1 + 3) \div 4) * 4
            offset(i) == seen[i] - content.addr
        IN  /\ \A i \in 1..Len(seen) : offset(i) % 4 = 0
            /\ seen # <<>> => offset(1) = 0
            /\ \A i \in 1..(Len(seen) - 1) : offset(i + 1) = offset(i) + advance(i)
            /\ seen # <<>> =>
                   Len(content.bytes) = offset(Len(seen)) + advance(Len(seen))
            /\ \A i \in 1..(Len(seen) - 1) : offset(i) + length(i) + 1 <= offset(i + 1)

====
